---------------------------- MODULE Spec2Model ----------------------------
(***************************************************************************)
(* A model of sqlite_cpp: the blocking wrappers of sqlite_blocking.cc      *)
(* (unlock-notify based waiting), the Statement class of sqlite_cpp.h /    *)
(* sqlite_cpp.cc and ExecRC.                                               *)
(*                                                                         *)
(* Several specifications share the module, among them:                    *)
(*   Spec / FairSpec  threads making blocking calls on connections that    *)
(*                    share a cache (sqlite_blocking.cc);                  *)
(*   StmtSpec         construction, moves, destruction, Reset and GetRow   *)
(*                    of Statement objects on one connection;              *)
(*   ExecSpec / ExecFairSpec  ExecRC running one script.                   *)
(* The database engine is an external collaborator; its calls are the      *)
(* Engine... definitions below.                                            *)
(***************************************************************************)
EXTENDS Integers, Sequences, FiniteSets, TLC

(***************************************************************************)
(* Bounds of the model.                                                    *)
(***************************************************************************)
NumConns == 2     \* connections sharing the cache, one thread each
MaxCalls == 2     \* blocking calls made in all, by all threads
MaxStmts == 3     \* statement handles the engine compiles in one run
MaxLen   == 3     \* tokens in an SQL text
MaxGot   == 4     \* successful GetRow calls counted between two resets
MaxTravs == 2     \* traversals of the rows of one Statement
MaxParams == 2    \* parameters of a statement that takes parameters
MaxRows  == 3     \* rows copied into a Sink
IntBits  == 3     \* width of int, scaled down
Int64Bits == 5    \* width of int64 and long, scaled down
MaxBytes == 2     \* bytes in a text or blob value

(***************************************************************************)
(* Status codes (sqlite3.h), kept symbolic.                                *)
(***************************************************************************)
SQLITE_OK     == "OK"
SQLITE_ERROR  == "ERROR"
SQLITE_LOCKED == "LOCKED"
SQLITE_MISUSE == "MISUSE"
SQLITE_ROW    == "ROW"
SQLITE_DONE   == "DONE"
SQLITE_RANGE  == "RANGE"
SQLITE_TOOBIG == "TOOBIG"
SQLITE_CONSTRAINT == "CONSTRAINT"

Conns  == 1..NumConns
Res    == {"t", "u"}     \* two tables of the shared cache
NoConn == 0
Kinds  == {"step", "prepare", "exec"}

VARIABLES
  \* ----- sqlite_blocking.cc: one thread per connection
  pc,          \* position of each thread in its blocking call
  kind,        \* which wrapper the thread is in: step, prepare or exec
  want,        \* the table the wrapped engine call needs
  rc,          \* the wrapper's local rc
  fired,       \* UnlockNotification::fired of the thread's current wait
  mutex,       \* UnlockNotification::mutex: its owner, or NoConn
  cbq,         \* notification objects a thread still has to call back
  calls,       \* blocking calls made so far, by all threads
  \* ----- engine state (shared cache, unlock-notify bookkeeping)
  holder,      \* lock holder of each table, or NoConn
  blocking,    \* pBlockingConnection of each connection
  unlockConn,  \* pUnlockConnection of each connection (registered wait)
  \* ----- history, read only by the properties
  dead,        \* the registration of the thread's latest call reported
               \* would-deadlock
  owed,        \* locked results of this call not yet answered by a callback
  slept,       \* the thread waited on the condition variable in this call
  lastRet,     \* the most recent return of a blocking call
  un,          \* the UnlockNotification objects of each thread: how many
               \* it has made, whether the latest is alive, which one the
               \* engine has registered; and the latest callback
  \* ----- sqlite_cpp.h / sqlite_cpp.cc: Statement objects and ExecRC
  objs,        \* the Statement objects: alive, stmt_, rc_ (and history)
  hs,          \* the engine's statement handles, in order of compilation
  lastOp,      \* the most recent Statement operation (history)
  ex,          \* the run of ExecRC: its locals (and history)
  tr           \* client code using one Statement: its locals (and history)

concVars == <<pc, kind, want, rc, fired, mutex, cbq, calls, holder, blocking,
              unlockConn, dead, owed, slept, lastRet, un>>

seqVars == <<objs, hs, lastOp, ex, tr>>

vars == <<concVars, seqVars>>

-----------------------------------------------------------------------------
(***************************************************************************)
(* The engine: shared-cache locks and unlock-notify.                       *)
(***************************************************************************)

\* The connection whose lock makes c's call on table r fail, or NoConn.
EngineBlocker(c, r) ==
  IF holder[r] \notin {NoConn, c} THEN holder[r] ELSE NoConn

\* Non-locked results of the wrapped engine call.
EngineResults(k) ==
  CASE k = "step"    -> {SQLITE_ROW, SQLITE_DONE, SQLITE_ERROR}
    [] k = "prepare" -> {SQLITE_OK, SQLITE_ERROR}
    [] k = "exec"    -> {SQLITE_OK, SQLITE_ERROR}

\* sqlite3_unlock_notify's deadlock check: follow the chain of registered
\* waits from c's blocker; waiting would close a cycle iff it leads to c.
RECURSIVE ChainReaches(_, _, _)
ChainReaches(p, c, fuel) ==
  IF p = NoConn \/ fuel = 0 THEN FALSE
  ELSE IF p = c THEN TRUE
  ELSE ChainReaches(unlockConn[p], c, fuel - 1)

EngineWouldDeadlock(c) == ChainReaches(blocking[c], c, NumConns + 1)

-----------------------------------------------------------------------------
(***************************************************************************)
(* sqlite_blocking.cc                                                      *)
(***************************************************************************)

InCall(t) == pc[t] # "idle"

NoRet == [kind |-> "none", rc |-> "none", dead |-> FALSE,
          owed |-> 0, slept |-> FALSE, by |-> NoConn, asleep |-> {}]

\* The application enters sqlite3_blocking_step / _prepare_v2 / _exec.
BeginCall(t, k, r) ==
  /\ pc[t] = "idle"
  /\ cbq[t] = {}
  /\ calls < MaxCalls
  /\ calls' = calls + 1
  /\ pc' = [pc EXCEPT ![t] = "call"]
  /\ kind' = [kind EXCEPT ![t] = k]
  /\ want' = [want EXCEPT ![t] = r]
  /\ dead' = [dead EXCEPT ![t] = FALSE]
  /\ UNCHANGED <<rc, fired, mutex, cbq, holder, blocking, unlockConn, owed,
                 slept, lastRet>>
  /\ UNCHANGED <<un, seqVars>>

\* Thread t goes on at position p with local rc r, or, when p is "ret",
\* its wrapper returns r: the locals of the call are gone and the return
\* is recorded.
Goto(t, p, r, d, o, s) ==
  IF p = "ret"
  THEN /\ pc' = [pc EXCEPT ![t] = "idle"]
       /\ rc' = [rc EXCEPT ![t] = "none"]
       /\ kind' = [kind EXCEPT ![t] = "none"]
       /\ want' = [want EXCEPT ![t] = "none"]
       /\ dead' = [dead EXCEPT ![t] = d]
       /\ owed' = [owed EXCEPT ![t] = 0]
       /\ slept' = [slept EXCEPT ![t] = FALSE]
       /\ lastRet' = [kind |-> kind[t], rc |-> r, dead |-> d,
                      owed |-> o, slept |-> s, by |-> t,
                      asleep |-> {u \in Conns \ {t} : pc[u] = "wait"}]
  ELSE /\ pc' = [pc EXCEPT ![t] = p]
       /\ rc' = [rc EXCEPT ![t] = r]
       /\ dead' = [dead EXCEPT ![t] = d]
       /\ owed' = [owed EXCEPT ![t] = o]
       /\ slept' = [slept EXCEPT ![t] = s]
       /\ UNCHANGED <<kind, want, lastRet>>

\* No notification object has been made and no callback has run.
NoUn == [obj |-> [t \in Conns |-> [id |-> 0, live |-> FALSE, reg |-> 0]],
         cb |-> [p |-> NoConn, id |-> 0, live |-> FALSE,
                 was |-> FALSE, now |-> FALSE]]

\* UnlockNotification un: thread t makes its next notification object.
\* reg tells whether sqlite3_unlock_notify keeps its address, alive
\* whether wait_for_unlock_notify goes on after the registration.
NewNotification(t, reg, alive) ==
  [id |-> un.obj[t].id + 1, live |-> alive,
   reg |-> IF reg THEN un.obj[t].id + 1 ELSE 0]

\* unlock_notify_cb reads and writes the object whose address the engine
\* was given: which object that is, whether it is the live one of its
\* thread, and the fired flag before and after.
CallbackTouches(p, id, alive, was, now) ==
  [p |-> p, id |-> id, live |-> alive, was |-> was, now |-> now]

LoopOnLocked_Never(r) == FALSE

\* The loop condition of the three wrappers: go on while the engine call
\* reports SQLITE_LOCKED.
LoopOnLocked(r) == r = SQLITE_LOCKED

\* rc = sqlite3_step / sqlite3_prepare_v2 / sqlite3_exec, and the test of
\* the while condition.
EngineCall(t) ==
  /\ pc[t] = "call"
  /\ \/ /\ EngineBlocker(t, want[t]) # NoConn
        /\ blocking' = [blocking EXCEPT ![t] = EngineBlocker(t, want[t])]
        /\ Goto(t, IF LoopOnLocked(SQLITE_LOCKED) THEN "notify" ELSE "ret",
                SQLITE_LOCKED, dead[t], owed[t] + 1, slept[t])
        /\ UNCHANGED holder
     \/ /\ EngineBlocker(t, want[t]) = NoConn
        /\ \E res \in EngineResults(kind[t]), keep \in BOOLEAN :
             /\ holder' = IF keep /\ res # SQLITE_ERROR
                          THEN [holder EXCEPT ![want[t]] = t] ELSE holder
             /\ Goto(t, IF LoopOnLocked(res) THEN "notify" ELSE "ret",
                     res, dead[t], owed[t], slept[t])
        /\ UNCHANGED blocking
  /\ UNCHANGED <<fired, mutex, cbq, calls, unlockConn>>
  /\ UNCHANGED <<un, seqVars>>

\* wait_for_unlock_notify blocks only if the registration returned
\* SQLITE_OK.
BlocksWhen(r) == r = SQLITE_OK

StopRetrying_Never(r) == FALSE

\* After wait_for_unlock_notify returned r: break and return r unless it
\* is SQLITE_OK.
StopRetrying(r) == r # SQLITE_OK

ResetsBeforeRetry_Never(k) == FALSE

\* Only sqlite3_blocking_step has sqlite3_reset(pStmt) in its loop body.
ResetsBeforeRetry(k) == k = "step"

\* Where the wrapper goes when wait_for_unlock_notify has returned r:
\* out of the loop, or to the retry (the step wrapper resets first).
AfterWait(t, r) ==
  IF StopRetrying(r) THEN "ret"
  ELSE IF ResetsBeforeRetry(kind[t]) THEN "reset" ELSE "call"

CallbackFired_Forgets(f) == f

\* What unlock_notify_cb stores in the fired flag.
CallbackFired(f) == TRUE

\* wait_for_unlock_notify, first half: a fresh UnlockNotification and the
\* call of sqlite3_unlock_notify.  The engine calls back at once (on this
\* thread) when the blocker has already gone, refuses when waiting would
\* deadlock, and otherwise records the wait.
Register(t) ==
  /\ pc[t] = "notify"
  /\ mutex' = [mutex EXCEPT ![t] = NoConn]
  /\ IF blocking[t] = NoConn
     THEN /\ fired' = [fired EXCEPT ![t] = CallbackFired(FALSE)]
          /\ Goto(t, "lock", SQLITE_OK, dead[t], owed[t] - 1, slept[t])
          /\ un' = [obj |-> [un.obj EXCEPT
                               ![t] = NewNotification(t, FALSE, TRUE)],
                    cb |-> CallbackTouches(t, un.obj[t].id + 1, TRUE,
                                           FALSE, CallbackFired(FALSE))]
          /\ UNCHANGED unlockConn
     ELSE IF EngineWouldDeadlock(t)
     THEN /\ fired' = [fired EXCEPT ![t] = FALSE]
          /\ Goto(t, IF BlocksWhen(SQLITE_LOCKED) THEN "lock"
                     ELSE AfterWait(t, SQLITE_LOCKED),
                  SQLITE_LOCKED, TRUE, owed[t], slept[t])
          /\ un' = [un EXCEPT
                      !.obj[t] = NewNotification(t, FALSE,
                                                 BlocksWhen(SQLITE_LOCKED))]
          /\ UNCHANGED unlockConn
     ELSE /\ fired' = [fired EXCEPT ![t] = FALSE]
          /\ unlockConn' = [unlockConn EXCEPT ![t] = blocking[t]]
          /\ Goto(t, "lock", SQLITE_OK, dead[t], owed[t], slept[t])
          /\ un' = [un EXCEPT !.obj[t] = NewNotification(t, TRUE, TRUE)]
  /\ UNCHANGED <<cbq, calls, holder, blocking>>
  /\ UNCHANGED seqVars

\* std::unique_lock(un.mutex), also the re-acquisition when cond.wait ends.
LockMutex(t) ==
  /\ pc[t] = "lock"
  /\ mutex[t] = NoConn
  /\ mutex' = [mutex EXCEPT ![t] = t]
  /\ pc' = [pc EXCEPT ![t] = "check"]
  /\ UNCHANGED <<kind, want, rc, fired, cbq, calls, holder, blocking,
                 unlockConn, dead, owed, slept, lastRet>>
  /\ UNCHANGED <<un, seqVars>>

WaitDone_NoCheck(f) == TRUE

\* The wait ends when the fired flag is seen set: while (!un.fired).
WaitDone(f) == f

CondWait_KeepsMutex(t) == t

\* The owner of the mutex while its thread sleeps in un.cond.wait(_lock):
\* the wait releases the lock it is given.
CondWait(t) == NoConn

\* One test of the wait loop with the mutex held: leave (the lock's
\* destructor releases the mutex) and return rc, or cond.wait (which
\* releases the mutex while the thread sleeps).
CheckFired(t) ==
  /\ pc[t] = "check"
  /\ IF WaitDone(fired[t])
     THEN /\ mutex' = [mutex EXCEPT ![t] = NoConn]
          /\ Goto(t, AfterWait(t, rc[t]), rc[t], dead[t], owed[t], slept[t])
          /\ un' = [un EXCEPT !.obj[t].live = FALSE]
     ELSE /\ mutex' = [mutex EXCEPT ![t] = CondWait(t)]
          /\ Goto(t, "wait", rc[t], dead[t], owed[t], TRUE)
          /\ UNCHANGED un
  /\ UNCHANGED <<fired, cbq, calls, holder, blocking, unlockConn>>
  /\ UNCHANGED seqVars

\* cond.wait may return without a notification.
SpuriousWake(t) ==
  /\ pc[t] = "wait"
  /\ pc' = [pc EXCEPT ![t] = "lock"]
  /\ UNCHANGED <<kind, want, rc, fired, mutex, cbq, calls, holder, blocking,
                 unlockConn, dead, owed, slept, lastRet>>
  /\ UNCHANGED <<un, seqVars>>

\* sqlite3_reset(pStmt) before the step is retried.
ResetBeforeRetry(t) ==
  /\ pc[t] = "reset"
  /\ pc' = [pc EXCEPT ![t] = "call"]
  /\ UNCHANGED <<kind, want, rc, fired, mutex, cbq, calls, holder, blocking,
                 unlockConn, dead, owed, slept, lastRet>>
  /\ UNCHANGED <<un, seqVars>>

\* The application ends its transaction (commit or rollback) outside any
\* blocking call: the engine drops its locks, forgets it as a blocker and
\* collects the callbacks of the connections waiting for it.
Release(t) ==
  /\ pc[t] = "idle"
  /\ cbq[t] = {}
  /\ \E r \in Res : holder[r] = t
  /\ holder' = [r \in Res |-> IF holder[r] = t THEN NoConn ELSE holder[r]]
  /\ blocking' = [c \in Conns |->
                    IF blocking[c] = t THEN NoConn ELSE blocking[c]]
  /\ unlockConn' = [c \in Conns |->
                      IF unlockConn[c] = t THEN NoConn ELSE unlockConn[c]]
  /\ cbq' = [cbq EXCEPT ![t] = {c \in Conns : unlockConn[c] = t}]
  /\ UNCHANGED <<pc, kind, want, rc, fired, mutex, calls, dead, owed, slept,
                 lastRet>>
  /\ UNCHANGED <<un, seqVars>>

NotifyAll_Never(at) == at

\* p->cond.notify_all(): a thread sleeping on the condition variable goes
\* on to take the mutex again; a thread anywhere else is not affected.
NotifyAll(at) == IF at = "wait" THEN "lock" ELSE at

\* unlock_notify_cb for one element of apArg, run by the releasing thread:
\* lock_guard(p->mutex); p->fired = true; p->cond.notify_all().
Callback(t, p) ==
  /\ p \in cbq[t]
  /\ mutex[p] = NoConn
  /\ fired' = [fired EXCEPT ![p] = CallbackFired(fired[p])]
  /\ owed' = [owed EXCEPT ![p] = @ - 1]
  /\ pc' = [pc EXCEPT ![p] = NotifyAll(pc[p])]
  /\ cbq' = [cbq EXCEPT ![t] = @ \ {p}]
  /\ un' = [obj |-> [un.obj EXCEPT ![p].reg = 0],
            cb |-> CallbackTouches(p, un.obj[p].reg,
                                   un.obj[p].live
                                     /\ un.obj[p].reg = un.obj[p].id,
                                   fired[p], CallbackFired(fired[p]))]
  /\ UNCHANGED <<kind, want, rc, mutex, calls, holder, blocking, unlockConn,
                 dead, slept, lastRet>>
  /\ UNCHANGED seqVars

ThreadProgress(t) ==
  \/ EngineCall(t)
  \/ Register(t)
  \/ LockMutex(t)
  \/ CheckFired(t)
  \/ ResetBeforeRetry(t)
  \/ Release(t)
  \/ \E p \in Conns : Callback(t, p)

-----------------------------------------------------------------------------
(***************************************************************************)
(* The engine: SQL text, compilation and execution of statements.          *)
(*                                                                         *)
(* An SQL text is a sequence of tokens.  "ws" is white space or a comment, *)
(* "semi" an empty statement (a lone ';'); "dml", "q1", "q2" are           *)
(* statements that compile and run, producing 0, 1 and 2 rows; "fail"      *)
(* compiles and fails when stepped; "bad" does not compile.                *)
(***************************************************************************)
Trivial == {"ws", "semi"}
Runs    == {"dml", "q1", "q2"}
Tokens  == Trivial \cup Runs \cup {"fail", "bad"}
Texts   == UNION {[1..n -> Tokens] : n \in 0..MaxLen}

NoStmt == 0     \* the null sqlite3_stmt*

\* Values handed to the engine: NULL, two plain values, a value that
\* breaks a constraint of the table when inserted in the first column, and
\* a value larger than the engine's length limit.
Vals == {"null", "v", "w", "dup", "big"}

\* The parameters of a statement: the data-changing statement is an INSERT
\* of MaxParams values, the queries take none.
NParams(k) == IF k = "dml" THEN MaxParams ELSE 0

Rows(k) == CASE k = "q1" -> 1 [] k = "q2" -> 2 [] OTHER -> 0

\* Index of the first token at or after from that is not trivial, or 0.
RECURSIVE SkipTrivial(_, _)
SkipTrivial(sql, from) ==
  IF from > Len(sql) THEN 0
  ELSE IF sql[from] \in Trivial THEN SkipTrivial(sql, from + 1)
  ELSE from

\* sqlite3_prepare_v2 on the text from position from: leading trivial text
\* is skipped; the first statement found is compiled and tail is left just
\* behind it.  Text that is trivial to its end gives SQLITE_OK, no handle.
EnginePrepare(sql, from) ==
  LET i == SkipTrivial(sql, from) IN
  IF i = 0 THEN [rc |-> SQLITE_OK, kind |-> "none", tail |-> Len(sql) + 1]
  ELSE IF sql[i] = "bad"
    THEN [rc |-> SQLITE_ERROR, kind |-> "none", tail |-> i + 1]
    ELSE [rc |-> SQLITE_OK, kind |-> sql[i], tail |-> i + 1]

\* A freshly compiled handle.  pos counts the rows produced since the
\* statement last started; Rows(kind) + 1 stands for "ran to its end".
\* binds holds the values bound to the statement's parameters.
NewStmt(k, isRem) ==
  [kind |-> k, fin |-> 0, pos |-> 0, stepped |-> FALSE, rem |-> isRem,
   binds |-> [i \in 1..NParams(k) |-> "null"]]

\* sqlite3_finalize: a no-op on the null handle.
EngineFinalize(tab, h) ==
  IF h = NoStmt THEN tab
  ELSE [tab EXCEPT ![h].fin = IF @ < 2 THEN @ + 1 ELSE @, ![h].pos = 0,
                   ![h].kind = "none"]

\* sqlite3_reset: a no-op on the null handle.
EngineReset(tab, h) ==
  IF h = NoStmt THEN tab ELSE [tab EXCEPT ![h].pos = 0]

\* sqlite3_step: the status, the row produced (0: none) and the new table.
\* A statement that ran to its end starts over when stepped again.
EngineStep(tab, h) ==
  IF h = NoStmt \/ tab[h].fin > 0
    THEN [rc |-> SQLITE_MISUSE, row |-> 0, tab |-> tab]
  ELSE IF tab[h].kind = "fail"
    THEN [rc |-> SQLITE_ERROR, row |-> 0,
          tab |-> [tab EXCEPT ![h].stepped = TRUE]]
  ELSE IF tab[h].kind = "dml" /\ tab[h].binds[1] = "dup"
    THEN [rc |-> SQLITE_CONSTRAINT, row |-> 0,
          tab |-> [tab EXCEPT ![h].stepped = TRUE]]
  ELSE
    LET n == Rows(tab[h].kind)
        p == IF tab[h].pos = n + 1 THEN 0 ELSE tab[h].pos
    IN IF p < n
         THEN [rc |-> SQLITE_ROW, row |-> p + 1,
               tab |-> [tab EXCEPT ![h].pos = p + 1, ![h].stepped = TRUE]]
         ELSE [rc |-> SQLITE_DONE, row |-> 0,
               tab |-> [tab EXCEPT ![h].pos = n + 1, ![h].stepped = TRUE]]

\* sqlite3_bind_*: parameter i of the statement gets value v.  Refused with
\* SQLITE_MISUSE without a statement or on one that has been stepped and
\* not reset, with SQLITE_RANGE for a parameter the statement does not
\* have, and with SQLITE_TOOBIG, the parameter left NULL, for a value over
\* the length limit.
EngineBind(tab, h, i, v) ==
  IF h = NoStmt \/ tab[h].fin > 0 \/ tab[h].pos # 0
    THEN [rc |-> SQLITE_MISUSE, tab |-> tab]
  ELSE IF i \notin 1..Len(tab[h].binds)
    THEN [rc |-> SQLITE_RANGE, tab |-> tab]
  ELSE IF v = "big"
    THEN [rc |-> SQLITE_TOOBIG, tab |-> [tab EXCEPT ![h].binds[i] = "null"]]
  ELSE [rc |-> SQLITE_OK, tab |-> [tab EXCEPT ![h].binds[i] = v]]

\* sqlite3_clear_bindings: every parameter becomes NULL.
EngineClearBindings(tab, h) ==
  [tab EXCEPT ![h].binds = [i \in 1..Len(@) |-> "null"]]

\* The name of parameter i in the text of a statement.
ParamName(i) == ":p" \o ToString(i)

\* sqlite3_bind_parameter_index: the position of the parameter of that
\* name, 0 when the statement has none (or there is no statement).
EngineParameterIndex(tab, h, zName) ==
  IF h = NoStmt THEN 0
  ELSE LET found == {i \in 1..Len(tab[h].binds) : ParamName(i) = zName}
       IN IF found = {} THEN 0 ELSE CHOOSE i \in found : TRUE

\* sqlite3_errstr: the English text for a status code.
Errstr(r) ==
  CASE r = SQLITE_OK -> "not an error"
    [] r = SQLITE_ERROR -> "SQL logic error"
    [] r = SQLITE_LOCKED -> "database table is locked"
    [] r = SQLITE_MISUSE -> "bad parameter or other API misuse"
    [] r = SQLITE_ROW -> "another row available"
    [] r = SQLITE_DONE -> "no more rows available"
    [] r = SQLITE_RANGE -> "column index out of range"
    [] r = SQLITE_TOOBIG -> "string or blob too big"
    [] r = SQLITE_CONSTRAINT -> "constraint failed"

\* A step of a statement may report SQLITE_LOCKED, whether the statement is
\* about to start or has produced rows already.
EngineMayLock(tab, h) ==
  /\ h # NoStmt
  /\ tab[h].fin = 0

\* The statement is between its first row and its end.
MidRun(tab, h) ==
  /\ h # NoStmt
  /\ tab[h].pos \notin {0, Rows(tab[h].kind) + 1}

\* How many times handles were finalized, in all.
Finalized(tab) ==
  Cardinality({h \in 1..Len(tab) : tab[h].fin >= 1})
    + Cardinality({h \in 1..Len(tab) : tab[h].fin >= 2})

\* What the other connections do to a blocking call of this connection:
\* nothing, a lock that is waited on until released, or a lock on which
\* waiting would deadlock.
Contention == {"free", "resolved", "deadlock"}

-----------------------------------------------------------------------------
(***************************************************************************)
(* sqlite_blocking.cc, as seen by the one calling thread.                  *)
(***************************************************************************)

\* sqlite3_blocking_prepare_v2.  The engine call is repeated after every
\* wait that ended with the lock released; a would-deadlock ends the loop
\* with SQLITE_LOCKED and nothing compiled.
BlockingPrepare(sql, from, c) ==
  IF c = "deadlock"
    THEN [rc |-> SQLITE_LOCKED, kind |-> "none", tail |-> from]
    ELSE EnginePrepare(sql, from)

RetryStart_NoReset(tab, h) == tab

\* sqlite3_blocking_step: sqlite3_reset(pStmt) before the step is retried.
RetryStart(tab, h) == EngineReset(tab, h)

\* sqlite3_blocking_step.  After a wait that ended with the lock released
\* the statement is reset and stepped again; a would-deadlock ends the loop
\* with SQLITE_LOCKED.
BlockingStep(tab, h, c) ==
  IF c = "free" \/ ~EngineMayLock(tab, h) THEN EngineStep(tab, h)
  ELSE IF c = "deadlock" THEN [rc |-> SQLITE_LOCKED, row |-> 0, tab |-> tab]
  ELSE EngineStep(RetryStart(tab, h), h)

-----------------------------------------------------------------------------
(***************************************************************************)
(* sqlite_cpp.cc / sqlite_cpp.h: class Statement.                          *)
(***************************************************************************)
\* The Statement objects of the program (storage for them).
Objs == {"a", "b"}

\* Storage not holding a Statement.  The last four fields are history:
\* strictFail, the Statement came out of a strict construction that
\* compiled the first statement and failed on the text behind it; and, for
\* such a Statement, wasReset, Reset was called on it; nread, how many
\* GetRow calls succeeded since its last Reset (or since its construction);
\* clean, no GetRow call has failed since and none met a lock with the
\* statement between its first row and its end.
NoObj == [alive |-> FALSE, stmt |-> NoStmt, rc |-> SQLITE_OK,
          strictFail |-> FALSE, wasReset |-> FALSE, nread |-> 0,
          clean |-> TRUE]

\* History of the most recent operation: what it was, on which objects,
\* what they held before it, and (for a construction) facts about the text.
NoOp == [op |-> "none", dst |-> "none", src |-> "none", srcStmt |-> NoStmt,
         srcRc |-> SQLITE_OK, dstStmt |-> NoStmt, strict |-> FALSE,
         firstRc |-> SQLITE_OK, firstOk |-> FALSE, restWork |-> FALSE,
         restGap |-> 0, nprep |-> 0, rem |-> NoStmt, nread |-> 0,
         clean |-> FALSE, row |-> 0, finalized |-> 0, ret |-> FALSE,
         rc |-> SQLITE_OK, from |-> 0, c |-> "free", got |-> FALSE,
         params |-> <<>>, before |-> <<>>, log |-> <<>>, copy |-> FALSE,
         index |-> 0, name |-> [none |-> TRUE]]

\* Client code frame, not in use.  on: the rows every Statement reads are
\* kept as history (otherwise only those of a Statement whose strict
\* construction failed).
\* Where no value is.
Nothing == [none |-> TRUE]

\* For a range-for loop over Rows(): pc is the loop's position (test: at
\* it != end, body: in the loop body), yielded the rows the body was given
\* in this traversal, resets and steps the calls this traversal made, clean
\* that none of its steps met a lock in the middle of the rows; nth counts
\* the traversals, how tells how the latest one stopped, and first,
\* firstHow, firstClean and firstRc keep what the first traversal did and
\* the status it stopped with; stepRc is the status of the latest step.
\* For std::copy into Sink(): pc is copy while rows are assigned, then
\* copied, thrown or crashed; input holds the rows, k the index of the row
\* in hand, calls the calls made on the Statement, stored the values the
\* statement held at each step that ended with Done, bindRc the result of
\* each row's bind, and what the text of the exception.
\* For a value sent through the statement and read back: value is the C++
\* value, slot what its parameter was bound to, cell what the engine
\* stored, back the C++ value read from the column.
TrOff == [on |-> FALSE, pc |-> "idle", nth |-> 0, yielded |-> <<>>,
          resets |-> 0, steps |-> 0, clean |-> TRUE, how |-> "none",
          first |-> <<>>, firstHow |-> "none", firstClean |-> TRUE,
          firstRc |-> SQLITE_OK, stepRc |-> SQLITE_OK,
          input |-> <<>>, k |-> 0, calls |-> <<>>, stored |-> <<>>,
          what |-> "none", bindRc |-> <<>>,
          value |-> Nothing, slot |-> Nothing, cell |-> Nothing,
          back |-> Nothing]

TrOn == [TrOff EXCEPT !.on = TRUE]

\* The rows read from Statement o are kept as history.
Traced(o) == objs[o].strictFail \/ tr.on

\* The first statement of the text compiles.
FirstCompiles(sql) ==
  \E i \in 1..Len(sql) :
    /\ sql[i] \notin Trivial \cup {"bad"}
    /\ \A j \in 1..(i - 1) : sql[j] \in Trivial

\* Some non-trivial statement follows the first statement, at any distance.
RestHasStatement(sql) ==
  \E i, j \in 1..Len(sql) :
    i < j /\ sql[i] \notin Trivial /\ sql[j] \notin Trivial

\* How far behind the first statement the next one begins (1: at once),
\* or 0 when none follows.
RestGap(sql) ==
  LET at == {i \in 1..Len(sql) : sql[i] \notin Trivial}
      lo(S) == CHOOSE i \in S : \A j \in S : i <= j
  IN IF Cardinality(at) < 2 THEN 0 ELSE lo(at \ {lo(at)}) - lo(at)

\* Statement(db, sql, must_compile_all): is the rest of the text compiled?
MustCheckRest_Always(must_compile_all, r) == r = SQLITE_OK

MustCheckRest(must_compile_all, r) == must_compile_all /\ r = SQLITE_OK

\* ... and the status once the rest was compiled with status r:
\* has_remainder is stmt_remainder != nullptr.
StrictRc_Keeps(r, has_remainder) == r

StrictRc(r, has_remainder) == IF has_remainder THEN SQLITE_ERROR ELSE r

\* Statement::Statement(sqlite3*, std::string_view, bool): what it compiles
\* (the kinds of stmt_ and of stmt_remainder, "none" for a null handle) and
\* the status it leaves, with c1 and c2 the contention met by the two
\* compilations.  The remaining fields are history.
StatementCtor(sql, must_compile_all, c1, c2) ==
  LET first == BlockingPrepare(sql, 1, c1)
      check == MustCheckRest(must_compile_all, first.rc)
      rest  == BlockingPrepare(sql, first.tail, c2)
      stmt_remainder == IF check THEN rest.kind ELSE "none"
  IN [stmt |-> first.kind,
      rem |-> stmt_remainder,
      rc |-> IF check THEN StrictRc(rest.rc, stmt_remainder # "none")
             ELSE first.rc,
      nprep |-> IF check THEN 2 ELSE 1,
      strict |-> must_compile_all,
      firstRc |-> first.rc,
      firstOk |-> FirstCompiles(sql) /\ c1 # "deadlock",
      restWork |-> RestHasStatement(sql),
      restGap |-> RestGap(sql)]

\* Every outcome of a construction, over all texts, both modes and all
\* contention.
CtorRuns ==
  {StatementCtor(sql, m, c1, c2) :
     sql \in Texts, m \in BOOLEAN, c1 \in Contention, c2 \in Contention}

\* A Statement is constructed in storage o, the constructor running as in
\* run: stmt_ is kept, stmt_remainder is finalized at once.
Construct(o, run) ==
  /\ ~objs[o].alive
  /\ Len(hs) + 2 <= MaxStmts
  /\ LET stmt_ == IF run.stmt = "none" THEN NoStmt ELSE Len(hs) + 1
         hs1   == IF stmt_ = NoStmt THEN hs
                  ELSE Append(hs, NewStmt(run.stmt, FALSE))
         stmt_remainder == IF run.rem = "none" THEN NoStmt ELSE Len(hs1) + 1
         hs2   == IF stmt_remainder = NoStmt THEN hs1
                  ELSE EngineFinalize(Append(hs1, NewStmt(run.rem, TRUE)),
                                      stmt_remainder)
     IN /\ hs' = hs2
        /\ objs' = [objs EXCEPT ![o] =
               [NoObj EXCEPT !.alive = TRUE, !.stmt = stmt_, !.rc = run.rc,
                  !.strictFail = run.strict /\ stmt_ # NoStmt
                                   /\ run.rc # SQLITE_OK]]
        /\ lastOp' = [NoOp EXCEPT !.op = "construct", !.dst = o,
               !.strict = run.strict, !.firstRc = run.firstRc,
               !.firstOk = run.firstOk, !.restWork = run.restWork,
               !.restGap = run.restGap, !.nprep = run.nprep,
               !.rem = stmt_remainder]
  /\ UNCHANGED <<concVars, ex, tr>>

\* What a move leaves in move_from.stmt_, and in the target's rc_.
MovedFromStmt_Keeps(h) == h

MovedFromStmt(h) == NoStmt

MovedRc_Keeps(dstRc, srcRc) == dstRc

MovedRc(dstRc, srcRc) == srcRc

\* History fields of o are those of s.
WithHistoryOf(o, s) ==
  [o EXCEPT !.strictFail = s.strictFail, !.wasReset = s.wasReset,
            !.nread = s.nread, !.clean = s.clean]

\* Statement::Statement(Statement&& move_from) into storage d.
MoveConstruct(d, s) ==
  /\ ~objs[d].alive
  /\ objs[s].alive
  /\ objs' = [objs EXCEPT
       ![d] = [objs[s] EXCEPT !.rc = MovedRc(SQLITE_OK, objs[s].rc)],
       ![s] = WithHistoryOf([objs[s] EXCEPT
                               !.stmt = MovedFromStmt(objs[s].stmt)], NoObj)]
  /\ lastOp' = [NoOp EXCEPT !.op = "movector", !.dst = d, !.src = s,
                            !.srcStmt = objs[s].stmt, !.srcRc = objs[s].rc]
  /\ UNCHANGED <<concVars, hs, ex, tr>>

\* Statement::operator=(Statement&& move_from); d = s is the self-move.
\* The assignments act in the order of the code.
MoveAssign(d, s) ==
  /\ objs[d].alive
  /\ objs[s].alive
  /\ LET o1 == [objs EXCEPT ![d] = WithHistoryOf(
                    [objs[d] EXCEPT !.stmt = objs[s].stmt], objs[s])]
         o2 == [o1 EXCEPT ![s] = WithHistoryOf(
                    [o1[s] EXCEPT !.stmt = MovedFromStmt(o1[s].stmt)], NoObj)]
         o3 == [o2 EXCEPT ![d].rc = MovedRc(o2[d].rc, o2[s].rc)]
     IN /\ hs' = EngineFinalize(hs, objs[d].stmt)
        /\ objs' = o3
  /\ lastOp' = [NoOp EXCEPT !.op = "moveassign", !.dst = d, !.src = s,
                            !.srcStmt = objs[s].stmt, !.srcRc = objs[s].rc,
                            !.dstStmt = objs[d].stmt,
                            !.finalized = Finalized(hs') - Finalized(hs)]
  /\ UNCHANGED <<concVars, ex, tr>>

\* Statement::~Statement().
Destroy(o) ==
  /\ objs[o].alive
  /\ hs' = EngineFinalize(hs, objs[o].stmt)
  /\ objs' = [objs EXCEPT ![o] = NoObj]
  /\ lastOp' = [NoOp EXCEPT !.op = "destroy", !.src = o,
                            !.srcStmt = objs[o].stmt,
                            !.finalized = Finalized(hs') - Finalized(hs)]
  /\ UNCHANGED <<concVars, ex, tr>>

\* Statement::Reset(): the status it leaves.
ResetRc_Keeps(stmt_, rc_) == rc_

ResetRc(stmt_, rc_) == IF stmt_ = NoStmt THEN SQLITE_ERROR ELSE SQLITE_OK

\* Statement::Reset().
Reset(o) ==
  /\ objs[o].alive
  /\ hs' = EngineReset(hs, objs[o].stmt)
  /\ objs' = [objs EXCEPT
       ![o].rc = ResetRc(objs[o].stmt, objs[o].rc),
       ![o].wasReset = Traced(o),
       ![o].nread = 0,
       ![o].clean = TRUE]
  /\ lastOp' = IF tr.on
                 THEN [NoOp EXCEPT !.op = "reset", !.dst = o,
                         !.srcRc = objs[o].rc,
                         !.before = IF objs[o].stmt = NoStmt THEN <<>>
                                    ELSE hs[objs[o].stmt].binds,
                         !.from = IF objs[o].stmt = NoStmt THEN 0
                                  ELSE hs[objs[o].stmt].pos]
                 ELSE [NoOp EXCEPT !.op = "reset", !.dst = o]
  /\ UNCHANGED <<concVars, ex, tr>>

\* if (rc_ == SQLITE_ROW) return ReadRow(stmt_); return std::nullopt;
GetRowHasValue_OrDone(r) == r \in {SQLITE_ROW, SQLITE_DONE}

GetRowHasValue(r) == r = SQLITE_ROW

\* Statement::GetRow<...>(): one blocking step; the row, if one came.
GetRow(o, c) ==
  /\ objs[o].alive
  /\ objs[o].nread < MaxGot
  /\ c # "free" => EngineMayLock(hs, objs[o].stmt)
  /\ LET r  == BlockingStep(hs, objs[o].stmt, c)
         ok == /\ r.rc \in {SQLITE_ROW, SQLITE_DONE}
               /\ c = "free" \/ ~MidRun(hs, objs[o].stmt)
     IN /\ hs' = r.tab
        /\ objs' = [objs EXCEPT
             ![o].rc = r.rc,
             ![o].nread = IF Traced(o) /\ objs[o].clean /\ ok
                            THEN @ + 1 ELSE 0,
             ![o].clean = ~Traced(o) \/ (@ /\ ok)]
        /\ lastOp' = [NoOp EXCEPT !.op = "getrow", !.dst = o,
                                  !.nread = objs[o].nread,
                                  !.clean = objs[o].clean /\ ok,
                                  !.row = r.row, !.rc = r.rc, !.c = c,
                                  !.got = GetRowHasValue(r.rc)]
  /\ UNCHANGED <<concVars, ex, tr>>

\* Statement::Run() starts with sqlite3_reset(stmt_).
RunStart_NoReset(tab, h) == tab

RunStart(tab, h) == EngineReset(tab, h)

\* Statement::Run() returns whether the step ended the statement.
RunReturns(r) == r = SQLITE_DONE

\* Statement::Run(): reset, one blocking step, rc_ is its status.
Run(o, c) ==
  /\ objs[o].alive
  /\ c # "free" => EngineMayLock(hs, objs[o].stmt)
  /\ LET r == BlockingStep(RunStart(hs, objs[o].stmt), objs[o].stmt, c)
     IN /\ hs' = r.tab
        /\ objs' = [objs EXCEPT ![o].rc = r.rc, ![o].nread = 0,
                                ![o].clean = ~Traced(o)]
        /\ lastOp' = [NoOp EXCEPT !.op = "run", !.dst = o,
                                  !.ret = RunReturns(r.rc),
                                  !.rc = r.rc, !.row = r.row, !.c = c,
                                  !.from = IF objs[o].stmt = NoStmt THEN 0
                                           ELSE hs[objs[o].stmt].pos]
  /\ UNCHANGED <<concVars, ex, tr>>

-----------------------------------------------------------------------------
(***************************************************************************)
(* The engine's values, and its calls that bind and read them.             *)
(***************************************************************************)
\* Integers of a given width, and an integer cut to a width (two's
\* complement).
Ints(w) == -(2 ^ (w - 1)) .. (2 ^ (w - 1) - 1)

Wrap(x, w) == ((x + 2 ^ (w - 1)) % (2 ^ w)) - 2 ^ (w - 1)

\* Doubles, by name.
Doubles == {"nan", "-inf", "-1.5", "-0.0", "0.0", "1.5", "inf"}

\* Byte strings; "nul" is the zero byte.
ByteStrings == UNION {[1..n -> {"a", "nul"}] : n \in 0..MaxBytes}

EngineNull == [t |-> "null"]

\* sqlite3_bind_int64, sqlite3_bind_int (the int is widened).
BindInt64(x) == [t |-> "integer", n |-> x]

BindInt(x) == [t |-> "integer", n |-> x]

\* sqlite3_bind_double: a NaN is bound as NULL.
BindDouble(d) == IF d = "nan" THEN EngineNull ELSE [t |-> "real", d |-> d]

\* sqlite3_bind_zeroblob: a blob of n zero bytes, expanded when stored.
BindZeroblob(n) == [t |-> "zeroblob", len |-> n]

\* sqlite3_bind_blob64, sqlite3_bind_text64: a null pointer binds NULL.
BindBlob64(data, bytes) ==
  IF data = "null" THEN EngineNull ELSE [t |-> "blob", bytes |-> bytes]

BindText64(data, bytes) ==
  IF data = "null" THEN EngineNull ELSE [t |-> "text", bytes |-> bytes]

\* What a column without type affinity holds once the statement that
\* inserts the bound value has run.
EngineStore(e) ==
  IF e.t = "zeroblob" THEN [t |-> "blob", bytes |-> [i \in 1..e.len |-> "nul"]]
  ELSE e

\* sqlite3_column_type, _int64, _int, _double, _blob, _text, _bytes, on
\* the storage classes that arise when a value is read with the type it
\* was bound with: that class, or NULL.
ColumnType(e) == e.t

ColumnInt64(e) == CASE e.t = "integer" -> e.n [] e.t = "null" -> 0

ColumnInt(e) == Wrap(ColumnInt64(e), IntBits)

ColumnDouble(e) == CASE e.t = "real" -> e.d [] e.t = "null" -> "0.0"

ColumnBytesOf(e) == CASE e.t \in {"blob", "text"} -> e.bytes
                      [] e.t = "null" -> <<>>

\* The pointer is null for NULL and for a blob of no bytes.
ColumnBlob(e) ==
  IF e.t = "null" \/ ColumnBytesOf(e) = <<>> THEN "null" ELSE "ptr"

ColumnText(e) == IF e.t = "null" THEN "null" ELSE "ptr"

ColumnBytes(e) == Len(ColumnBytesOf(e))

-----------------------------------------------------------------------------
(***************************************************************************)
(* sqlite_cpp.h: detail::BindParam and detail::ColumnReader.               *)
(***************************************************************************)
\* The C++ values of the supported types.  A text or blob value is a
\* pointer and bytes; a string_view or TextView of no bytes may have a null
\* pointer.  An optional has a value or not.
IntTypes == {"int64", "long", "int"}

BlobTypes == {"string", "string_view"}

TextTypes == {"Text", "TextView"}

Payloads(T) ==
  CASE T \in {"int64", "long"} -> {[n |-> x] : x \in Ints(Int64Bits)}
    [] T = "int" -> {[n |-> x] : x \in Ints(IntBits)}
    [] T = "double" -> {[d |-> x] : x \in Doubles}
    [] T \in {"string", "Text"} ->
         {[data |-> "ptr", bytes |-> b] : b \in ByteStrings}
    [] T \in {"string_view", "TextView"} ->
         {[data |-> "ptr", bytes |-> b] : b \in ByteStrings}
           \cup {[data |-> "null", bytes |-> <<>>]}

CTypes == IntTypes \cup {"double"} \cup BlobTypes \cup TextTypes

CValues ==
  UNION {{[type |-> T, opt |-> FALSE, has |-> TRUE, v |-> x] :
            x \in Payloads(T)}
         \cup {[type |-> T, opt |-> TRUE, has |-> TRUE, v |-> x] :
                  x \in Payloads(T)}
         \cup {[type |-> T, opt |-> TRUE, has |-> FALSE, v |-> Nothing]} :
         T \in CTypes}

\* BindParam(string_view): if (param.empty()) bind a zeroblob of length 0.
UsesZeroblob_Never(s) == FALSE

UsesZeroblob(s) == s.bytes = <<>>

\* BindParam(TextView): (param.empty() ? &kNothing : param.data()).
TextData_AsGiven(s) == s.data

TextData(s) == IF s.bytes = <<>> THEN "ptr" ELSE s.data

\* detail::BindParam<CopyOnBind>(stmt, position, param): what the
\* parameter is bound to, by the static type of param.
BindValue(x) ==
  IF x.opt /\ ~x.has THEN EngineNull
  ELSE CASE x.type \in {"int64", "long"} -> BindInt64(x.v.n)
         [] x.type = "int" -> BindInt(x.v.n)
         [] x.type = "double" -> BindDouble(x.v.d)
         [] x.type \in BlobTypes ->
              IF UsesZeroblob(x.v) THEN BindZeroblob(0)
              ELSE BindBlob64(x.v.data, x.v.bytes)
         [] x.type \in TextTypes -> BindText64(TextData(x.v), x.v.bytes)

\* ColumnReader<optional<Nullable>>: sqlite3_column_type(...) == SQLITE_NULL.
ReadsNull_Never(e) == FALSE

ReadsNull(e) == ColumnType(e) = "null"

\* string(ptr, n), Text(ptr, n), ...: the n bytes at ptr.
FromBuffer(ptr, bytes, n) == [data |-> ptr, bytes |-> SubSeq(bytes, 1, n)]

\* detail::ColumnReader<Col>::Read(stmt, position) for Col = T or
\* optional<T>.
ColumnReader(T, isOptional, e) ==
  IF isOptional /\ ReadsNull(e)
    THEN [type |-> T, opt |-> TRUE, has |-> FALSE, v |-> Nothing]
  ELSE [type |-> T, opt |-> isOptional, has |-> TRUE,
        v |-> CASE T \in {"int64", "long"} -> [n |-> ColumnInt64(e)]
                [] T = "int" -> [n |-> ColumnInt(e)]
                [] T = "double" -> [d |-> ColumnDouble(e)]
                [] T \in BlobTypes ->
                     FromBuffer(ColumnBlob(e), ColumnBytesOf(e),
                                ColumnBytes(e))
                [] T \in TextTypes ->
                     FromBuffer(ColumnText(e), ColumnBytesOf(e),
                                ColumnBytes(e))]

\* operator== of the C++ values.
PayloadEq(T, a, b) ==
  CASE T \in IntTypes -> a.n = b.n
    [] T = "double" ->
         /\ a.d # "nan" /\ b.d # "nan"
         /\ a.d = b.d \/ {a.d, b.d} = {"0.0", "-0.0"}
    [] OTHER -> a.bytes = b.bytes

ValueEq(x, y) ==
  /\ x.type = y.type /\ x.opt = y.opt /\ x.has = y.has
  /\ x.has => PayloadEq(x.type, x.v, y.v)

\* stmt.Bind(value): the value is bound to the parameter.
CodecBind ==
  /\ tr.pc = "value"
  /\ tr' = [tr EXCEPT !.pc = "bound", !.slot = BindValue(tr.value)]
  /\ UNCHANGED <<concVars, objs, hs, lastOp, ex>>

\* stmt.Run(): the statement stores what its parameter holds.
CodecStore ==
  /\ tr.pc = "bound"
  /\ tr' = [tr EXCEPT !.pc = "stored", !.cell = EngineStore(tr.slot)]
  /\ UNCHANGED <<concVars, objs, hs, lastOp, ex>>

\* GetRow<Col>() with the type the value was bound with.
CodecRead ==
  /\ tr.pc = "stored"
  /\ tr' = [tr EXCEPT !.pc = "read",
                      !.back = ColumnReader(tr.value.type, tr.value.opt,
                                            tr.cell)]
  /\ UNCHANGED <<concVars, objs, hs, lastOp, ex>>

\* The tuples of values handed to Bind: one value at least, up to one more
\* than a statement has parameters.
ParamTuples ==
  UNION {[1..n -> {"null", "v", "big"}] : n \in 1..(MaxParams + 1)}

\* detail::BindParam<CopyOnBind>(stmt, position, param): the sqlite3_bind_*
\* call for the type of param.
BindParam(tab, h, position, param) == EngineBind(tab, h, position, param)

\* DoBindTupleParams: if (rc != SQLITE_OK) return rc;
BindStops_Never(r) == FALSE

BindStops(r) == r # SQLITE_OK

\* DoBindTupleParams binds std::get<Pos>(params) at position Pos + 1.
BindPosition_Same(Pos) == Pos

BindPosition(Pos) == Pos + 1

\* detail::DoBindTupleParams<CopyOnBind, TupleCols, Pos>(stmt, params);
\* the tuple's element Pos (counted from 0) is params[Pos + 1] here.  log
\* lists the engine calls made: position, value and status.
RECURSIVE DoBindTupleParams(_, _, _, _, _)
DoBindTupleParams(tab, h, params, Pos, log) ==
  LET r  == BindParam(tab, h, BindPosition(Pos), params[Pos + 1])
      lg == Append(log, <<BindPosition(Pos), params[Pos + 1], r.rc>>)
  IN IF BindStops(r.rc) THEN [rc |-> r.rc, tab |-> r.tab, log |-> lg]
     ELSE IF Pos + 1 < Len(params)
       THEN DoBindTupleParams(r.tab, h, params, Pos + 1, lg)
       ELSE [rc |-> SQLITE_OK, tab |-> r.tab, log |-> lg]

\* detail::BindTupleParams / BindTupleParamsCopy.
BindTupleParams(tab, h, params) == DoBindTupleParams(tab, h, params, 0, <<>>)

\* The values bound to handle h (none without a handle).
BindsOf(tab, h) == IF h = NoStmt THEN <<>> ELSE tab[h].binds

\* Statement::Bind, BindCopy, BindTuple, BindTupleCopy: Reset(), then
\* rc_ = BindTupleParams[Copy](stmt_, params); true if that is SQLITE_OK.
\* The four differ in how the values are packed and in CopyOnBind, which
\* tells the engine whether to copy text and blob values.
Bind(o, params, CopyOnBind) ==
  /\ objs[o].alive
  /\ LET h == objs[o].stmt
         r == BindTupleParams(EngineReset(hs, h), h, params)
     IN /\ hs' = r.tab
        /\ objs' = [objs EXCEPT ![o].rc = r.rc, ![o].nread = 0,
                                ![o].clean = ~Traced(o)]
        /\ lastOp' = [NoOp EXCEPT !.op = "bind", !.dst = o,
                                  !.ret = (r.rc = SQLITE_OK), !.rc = r.rc,
                                  !.params = params, !.copy = CopyOnBind,
                                  !.before = BindsOf(hs, h),
                                  !.log = r.log,
                                  !.from = IF h = NoStmt THEN 0
                                           ELSE hs[h].pos]
  /\ UNCHANGED <<concVars, ex, tr>>

\* What Set and SetCopy are given as the name: a string, or an int giving
\* the position.  The strings name the parameters and one name more.
ParamNames ==
  {[str |-> ParamName(i)] : i \in 1..(MaxParams + 1)}
    \cup {[int |-> i] : i \in 0..(MaxParams + 1)}

\* detail::ColIndex(stmt, name), for a string and for an int.
ColIndex(tab, h, name) ==
  IF "int" \in DOMAIN name THEN name.int
  ELSE EngineParameterIndex(tab, h, name.str)

\* Set and SetCopy start with Reset().
SetStart_NoReset(tab, h) == tab

SetStart(tab, h) == EngineReset(tab, h)

\* Statement::Set and SetCopy: Reset(), then rc_ = BindParam<CopyOnBind>(
\* stmt_, ColIndex(stmt_, name), value); true if that is SQLITE_OK.
Set(o, name, value, CopyOnBind) ==
  /\ objs[o].alive
  /\ LET h  == objs[o].stmt
         t1 == SetStart(hs, h)
         i  == ColIndex(t1, h, name)
         r  == BindParam(t1, h, i, value)
     IN /\ hs' = r.tab
        /\ objs' = [objs EXCEPT ![o].rc = r.rc, ![o].nread = 0,
                                ![o].clean = ~Traced(o)]
        /\ lastOp' = [NoOp EXCEPT !.op = "set", !.dst = o,
                                  !.ret = (r.rc = SQLITE_OK), !.rc = r.rc,
                                  !.params = <<value>>, !.copy = CopyOnBind,
                                  !.index = i, !.name = name,
                                  !.before = BindsOf(hs, h),
                                  !.from = IF h = NoStmt THEN 0
                                           ELSE hs[h].pos]
  /\ UNCHANGED <<concVars, ex, tr>>

\* Statement::ClearBinds(): sqlite3_clear_bindings(stmt_).  Without a
\* handle the engine reads through a null pointer: with armor it refuses
\* the call, otherwise the program crashes.
ClearBinds(o, armor) ==
  /\ objs[o].alive
  /\ armor \/ objs[o].stmt = NoStmt
  /\ LET h == objs[o].stmt
     IN /\ hs' = IF h = NoStmt THEN hs ELSE EngineClearBindings(hs, h)
        /\ tr' = IF h = NoStmt /\ ~armor THEN [tr EXCEPT !.pc = "crashed"]
                 ELSE tr
        /\ lastOp' = [NoOp EXCEPT !.op = "clearbinds", !.dst = o,
                                  !.before = BindsOf(hs, h),
                                  !.from = IF h = NoStmt THEN 0
                                           ELSE hs[h].pos]
  /\ UNCHANGED <<concVars, objs, ex>>

\* The rows copied into a Sink: the first value may break a constraint when
\* stored, the second may be refused when bound.
SinkTuples == {<<x, y>> : x \in {"v", "w", "dup"}, y \in {"v", "big"}}

SinkInputs == UNION {[1..n -> SinkTuples] : n \in 0..MaxRows}

\* std::copy(first, last, stmt.Sink()) begins.
SinkStart(o, rows) ==
  /\ tr.pc = "idle"
  /\ tr.k = 0
  /\ objs[o].alive
  /\ tr' = [tr EXCEPT !.pc = IF Len(rows) = 0 THEN "copied" ELSE "copy",
                      !.input = rows, !.k = 1]
  /\ lastOp' = [NoOp EXCEPT !.op = "sink", !.dst = o]
  /\ UNCHANGED <<concVars, objs, hs, ex>>

\* AssignBinder::operator=: if (!s_->Run()) throw SqliteException(...).
SinkThrows_Never(ran) == FALSE

SinkThrows(ran) == ~ran

\* *out = row; ++out: AssignBinder::operator=(row) clears the bindings,
\* binds the row with BindTuple (a Reset and the bind calls), and runs the
\* statement with Run (a reset and one blocking step); SinkIterator's ++
\* does nothing.  Without a handle sqlite3_clear_bindings reads through a
\* null pointer: with armor the engine refuses the call, otherwise the
\* program crashes.
SinkAssign(o, c, armor) ==
  /\ tr.pc = "copy"
  /\ c # "free" => EngineMayLock(hs, objs[o].stmt)
  /\ armor \/ objs[o].stmt = NoStmt
  /\ LET h   == objs[o].stmt
         row == tr.input[tr.k]
     IN IF h = NoStmt /\ ~armor
          THEN /\ tr' = [tr EXCEPT !.pc = "crashed",
                           !.calls = Append(@, <<"clear", tr.k>>)]
               /\ lastOp' = [NoOp EXCEPT !.op = "assign", !.dst = o]
               /\ UNCHANGED <<objs, hs>>
          ELSE
            LET hs1 == IF h = NoStmt THEN hs ELSE EngineClearBindings(hs, h)
                b   == BindTupleParams(EngineReset(hs1, h), h, row)
                r   == BlockingStep(RunStart(b.tab, h), h, c)
                ran == RunReturns(r.rc)
                t   == [tr EXCEPT
                          !.calls = @ \o <<<<"clear", tr.k>>, <<"bind", tr.k>>,
                                           <<"run", tr.k>>>>,
                          !.bindRc = Append(@, b.rc),
                          !.stored = IF r.rc = SQLITE_DONE
                                       THEN Append(@, BindsOf(b.tab, h))
                                       ELSE @]
            IN /\ hs' = r.tab
               /\ objs' = [objs EXCEPT ![o].rc = r.rc]
               /\ tr' = IF SinkThrows(ran)
                          THEN [t EXCEPT !.pc = "thrown",
                                         !.what = Errstr(r.rc)]
                          ELSE [t EXCEPT !.k = @ + 1,
                                  !.pc = IF tr.k = Len(tr.input)
                                           THEN "copied" ELSE "copy"]
               /\ lastOp' = [NoOp EXCEPT !.op = "assign", !.dst = o,
                                         !.rc = r.rc, !.c = c, !.ret = ran]
  /\ UNCHANGED <<concVars, ex>>

\* Rowset::begin() starts with s_->Reset().
BeginStart_NoReset(tab, h) == tab

BeginStart(tab, h) == EngineReset(tab, h)

\* RowIterator::stopped(): s is the iterator's Statement ("null" for the
\* end iterator), r that Statement's status.
Stopped_OnDone(s, r) == s = "null" \/ r = SQLITE_DONE

Stopped(s, r) == s = "null" \/ r # SQLITE_ROW

\* RowIterator::operator!=.
IterNotEqual(s, r, other_s, other_r) ==
  (s # other_s) /\ ~(Stopped(s, r) /\ Stopped(other_s, other_r))

\* A step of the traversal, as history.
TraversalStep(t, tab, h, c) ==
  [t EXCEPT !.steps = @ + 1,
            !.clean = @ /\ (c = "free" \/ ~MidRun(tab, h))]

\* The traversal stops: what the first one did is kept.
TraversalStop(t, why, r) ==
  [t EXCEPT !.pc = "idle", !.how = why,
            !.firstRc = IF t.nth = 1 THEN r ELSE @,
            !.first = IF t.nth = 1 THEN t.yielded ELSE @,
            !.firstHow = IF t.nth = 1 THEN why ELSE @,
            !.firstClean = IF t.nth = 1 THEN t.clean ELSE @]

\* for (row : stmt.Rows()): Rowset::begin() resets the Statement and
\* advances the new iterator once.
RowsBegin(o, c) ==
  /\ tr.pc = "idle"
  /\ tr.nth < MaxTravs
  /\ objs[o].alive
  /\ c # "free" => EngineMayLock(hs, objs[o].stmt)
  /\ LET h   == objs[o].stmt
         hs1 == BeginStart(hs, h)
         r   == BlockingStep(hs1, h, c)
         t   == [tr EXCEPT !.pc = "test", !.nth = @ + 1, !.yielded = <<>>,
                           !.resets = 1, !.steps = 0, !.clean = TRUE,
                           !.how = "none"]
     IN /\ hs' = r.tab
        /\ objs' = [objs EXCEPT ![o].rc = r.rc, ![o].nread = 0,
                                ![o].clean = FALSE]
        /\ tr' = [TraversalStep(t, hs1, h, c) EXCEPT !.stepRc = r.rc]
        /\ lastOp' = [NoOp EXCEPT !.op = "begin", !.dst = o, !.rc = r.rc,
                                  !.c = c]
  /\ UNCHANGED <<concVars, ex>>

\* it != end, and, when it holds, const auto& row = *it.
RowsTest(o) ==
  /\ tr.pc = "test"
  /\ IF IterNotEqual(o, objs[o].rc, "null", SQLITE_OK)
       THEN tr' = [tr EXCEPT !.pc = "body",
                     !.yielded = Append(@, IF objs[o].stmt = NoStmt THEN 0
                                           ELSE hs[objs[o].stmt].pos)]
       ELSE tr' = TraversalStop(tr, "end", objs[o].rc)
  /\ lastOp' = [NoOp EXCEPT !.op = "test", !.dst = o]
  /\ UNCHANGED <<concVars, objs, hs, ex>>

\* ++it at the end of the loop body: one blocking step.
RowsNext(o, c) ==
  /\ tr.pc = "body"
  /\ tr.steps < MaxGot
  /\ c # "free" => EngineMayLock(hs, objs[o].stmt)
  /\ LET h == objs[o].stmt
         r == BlockingStep(hs, h, c)
     IN /\ hs' = r.tab
        /\ objs' = [objs EXCEPT ![o].rc = r.rc]
        /\ tr' = [TraversalStep(tr, hs, h, c) EXCEPT !.pc = "test",
                                                     !.stepRc = r.rc]
        /\ lastOp' = [NoOp EXCEPT !.op = "next", !.dst = o, !.rc = r.rc,
                                  !.c = c]
  /\ UNCHANGED <<concVars, ex>>

\* The loop body leaves the loop (break, return or an exception).
RowsBreak(o) ==
  /\ tr.pc = "body"
  /\ tr' = TraversalStop(tr, "break", objs[o].rc)
  /\ lastOp' = [NoOp EXCEPT !.op = "break", !.dst = o]
  /\ UNCHANGED <<concVars, objs, hs, ex>>

-----------------------------------------------------------------------------
(***************************************************************************)
(* sqlite_cpp.cc: ExecRC.                                                  *)
(***************************************************************************)

\* ExecRC's locals (script, current, rc, stmt), its position and result,
\* and history: at is the statement the loop is working on; tried and
\* stepped the statements handed to prepare and to step; done those
\* stepped to SQLITE_DONE, in order; failAt and failRc the first statement
\* whose compile or step ended with a failure status, and that status;
\* contended: some call was refused for a deadlock.
ExIdle == [pc |-> "idle", script |-> <<>>, current |-> 1, rc |-> SQLITE_OK,
           stmt |-> NoStmt, ret |-> "none", at |-> 0, tried |-> {},
           stepped |-> {}, done |-> <<>>, failAt |-> 0, failRc |-> "none",
           contended |-> FALSE]

\* The statuses on which ExecRC gives up.
ExecStops_Never(r) == FALSE

ExecStops(r) == r # SQLITE_OK /\ r # SQLITE_DONE

\* History: the first failure status seen.
NoteFailure(e, r) ==
  IF e.failAt = 0 /\ r \notin {SQLITE_OK, SQLITE_ROW, SQLITE_DONE}
    THEN [e EXCEPT !.failAt = e.at, !.failRc = r,
                   !.contended = @ \/ r = SQLITE_LOCKED]
    ELSE e

\* ExecRC(db, script) is called.
ExecStart(script) ==
  /\ ex.pc = "idle"
  /\ ex' = [ExIdle EXCEPT !.pc = "loop", !.script = script]
  /\ UNCHANGED <<concVars, objs, hs, lastOp, tr>>

\* if (!stmt) continue: nothing was compiled, nothing to run.
SkipsEmpty_Never(h) == FALSE

SkipsEmpty(h) == h = NoStmt

\* while (current < script.end()): compile the next statement.
ExecPrepare(c) ==
  /\ ex.pc = "loop"
  /\ ex.current <= Len(ex.script)
  /\ LET r  == BlockingPrepare(ex.script, ex.current, c)
         at == SkipTrivial(ex.script, ex.current)
         h  == IF r.kind = "none" THEN NoStmt ELSE Len(hs) + 1
         e  == [ex EXCEPT !.rc = r.rc, !.stmt = h, !.current = r.tail,
                          !.at = at,
                          !.tried = IF at = 0 THEN @ ELSE @ \cup {at},
                          !.pc = IF r.rc = SQLITE_OK
                                   THEN IF SkipsEmpty(h) THEN "loop" ELSE "step"
                                   ELSE "finalize"]
     IN /\ hs' = IF h = NoStmt THEN hs
                 ELSE Append(hs, NewStmt(r.kind, FALSE))
        /\ ex' = NoteFailure(e, r.rc)
  /\ UNCHANGED <<concVars, objs, lastOp, tr>>

\* The condition of the inner loop: step again while a row came back.
StepsAgain_Always(r) == TRUE

StepsAgain(r) == r = SQLITE_ROW

\* while ((rc = sqlite3_blocking_step(stmt)) == SQLITE_ROW) {}
ExecStep(c) ==
  /\ ex.pc = "step"
  /\ c # "free" => EngineMayLock(hs, ex.stmt)
  /\ LET r == BlockingStep(hs, ex.stmt, c)
         e == [ex EXCEPT !.rc = r.rc,
                         !.stepped = @ \cup {ex.at},
                         !.done = IF r.rc = SQLITE_DONE
                                    THEN Append(@, ex.at) ELSE @,
                         !.pc = IF StepsAgain(r.rc) THEN "step"
                                ELSE "finalize"]
     IN /\ hs' = r.tab
        /\ ex' = NoteFailure(e, r.rc)
  /\ UNCHANGED <<concVars, objs, lastOp, tr>>

\* sqlite3_finalize(stmt); if (rc != SQLITE_OK && rc != SQLITE_DONE)
\* return rc;
ExecFinalize ==
  /\ ex.pc = "finalize"
  /\ hs' = EngineFinalize(hs, ex.stmt)
  /\ ex' = IF ExecStops(ex.rc)
             THEN [ex EXCEPT !.pc = "done", !.ret = ex.rc, !.stmt = NoStmt]
             ELSE [ex EXCEPT !.pc = "loop", !.stmt = NoStmt]
  /\ UNCHANGED <<concVars, objs, lastOp, tr>>

\* The loop ends with the script used up: return SQLITE_OK.
ExecReturnOk ==
  /\ ex.pc = "loop"
  /\ ex.current > Len(ex.script)
  /\ ex' = [ex EXCEPT !.pc = "done", !.ret = SQLITE_OK]
  /\ UNCHANGED <<concVars, objs, hs, lastOp, tr>>

-----------------------------------------------------------------------------
(***************************************************************************)
(* Initial states and specifications.                                      *)
(***************************************************************************)

ConcIdle ==
  /\ pc = [t \in Conns |-> "idle"]
  /\ kind = [t \in Conns |-> "none"]
  /\ want = [t \in Conns |-> "none"]
  /\ rc = [t \in Conns |-> "none"]
  /\ fired = [t \in Conns |-> FALSE]
  /\ mutex = [t \in Conns |-> NoConn]
  /\ cbq = [t \in Conns |-> {}]
  /\ calls = 0
  /\ blocking = [t \in Conns |-> NoConn]
  /\ unlockConn = [t \in Conns |-> NoConn]
  /\ dead = [t \in Conns |-> FALSE]
  /\ owed = [t \in Conns |-> 0]
  /\ slept = [t \in Conns |-> FALSE]
  /\ lastRet = NoRet
  /\ un = NoUn

SeqIdle ==
  /\ objs = [o \in Objs |-> NoObj]
  /\ hs = <<>>
  /\ lastOp = NoOp
  /\ ex = ExIdle
  /\ tr = TrOff

\* Connections may already hold table locks from earlier transactions.
Init ==
  /\ ConcIdle
  /\ holder \in [Res -> Conns \cup {NoConn}]
  /\ SeqIdle

Next ==
  \E t \in Conns :
    \/ \E k \in Kinds, r \in Res : BeginCall(t, k, r)
    \/ SpuriousWake(t)
    \/ ThreadProgress(t)

Spec == Init /\ [][Next]_vars

\* Threads are scheduled fairly; a thread outside a call that holds locks
\* ends its transaction; the application need not make further calls.  A
\* callback blocked on a notification's mutex gets it once the waiter lets
\* go of it (spurious wake-ups do not keep it out for ever).
FairSpec ==
  /\ Spec
  /\ \A t \in Conns : WF_vars(ThreadProgress(t))
  /\ \A t, p \in Conns : SF_vars(Callback(t, p))

\* Statement objects used by one thread on a connection of its own.
StmtInit ==
  /\ ConcIdle
  /\ holder = [r \in Res |-> NoConn]
  /\ SeqIdle

StmtNext ==
  \/ \E o \in Objs, run \in CtorRuns : Construct(o, run)
  \/ \E d, s \in Objs : MoveConstruct(d, s)
  \/ \E d, s \in Objs : MoveAssign(d, s)
  \/ \E o \in Objs : Destroy(o)
  \/ \E o \in Objs : Reset(o)
  \/ \E o \in Objs, c \in Contention : GetRow(o, c)

StmtSpec == StmtInit /\ [][StmtNext]_vars

\* One call of ExecRC.
ExecNext ==
  \/ \E script \in Texts : ExecStart(script)
  \/ \E c \in Contention : ExecPrepare(c)
  \/ \E c \in Contention : ExecStep(c)
  \/ ExecFinalize
  \/ ExecReturnOk

ExecSpec == StmtInit /\ [][ExecNext]_vars

\* The step that ends the inner loop of ExecRC.
ExecLastStep == \E c \in Contention : ExecStep(c) /\ ex'.pc = "finalize"

\* The thread that called ExecRC keeps running, and every blocking call it
\* makes returns.  The other connections end their transactions: a
\* statement that is again and again one step from its end is not met by
\* the lock every time.
ExecFairSpec ==
  /\ ExecSpec
  /\ WF_vars(ExecNext)
  /\ SF_vars(ExecLastStep)

\* One Statement, constructed from any text, and the calls that step it.
RowInit ==
  /\ ConcIdle
  /\ holder = [r \in Res |-> NoConn]
  /\ objs = [o \in Objs |-> NoObj]
  /\ hs = <<>>
  /\ lastOp = NoOp
  /\ ex = ExIdle
  /\ tr = TrOn

RowNext ==
  \/ \E run \in CtorRuns : Construct("a", run)
  \/ tr.pc = "idle" /\ Reset("a")
  \/ \E c \in Contention : tr.pc = "idle" /\ GetRow("a", c)
  \/ \E c \in Contention : tr.pc = "idle" /\ Run("a", c)
  \/ \E c \in Contention : RowsBegin("a", c)
  \/ RowsTest("a")
  \/ \E c \in Contention : RowsNext("a", c)
  \/ RowsBreak("a")

RowSpec == RowInit /\ [][RowNext]_vars

\* One Statement, constructed from any text, that is given parameters and
\* run.
BindNext ==
  \/ \E run \in CtorRuns : Construct("a", run)
  \/ \E c \in Contention : Run("a", c)
  \/ \E params \in ParamTuples, CopyOnBind \in BOOLEAN :
       Bind("a", params, CopyOnBind)

BindSpec == StmtInit /\ [][BindNext]_vars

\* One Statement, constructed from any text, whose parameters are set,
\* cleared and reset between runs.
ParamNext ==
  /\ tr.pc = "idle"
  /\ \/ \E run \in CtorRuns : Construct("a", run)
     \/ \E c \in Contention : Run("a", c)
     \/ \E c \in Contention : GetRow("a", c)
     \/ Reset("a")
     \/ \E name \in ParamNames, value \in {"null", "v", "w", "big"},
           CopyOnBind \in BOOLEAN : Set("a", name, value, CopyOnBind)
     \/ \E armor \in BOOLEAN : ClearBinds("a", armor)

ParamSpec == RowInit /\ [][ParamNext]_vars

\* One Statement, constructed from any text, into whose Sink rows are
\* copied.
SinkNext ==
  \/ \E run \in CtorRuns : Construct("a", run)
  \/ \E c \in Contention : tr.k = 0 /\ Run("a", c)
  \/ \E rows \in SinkInputs : SinkStart("a", rows)
  \/ \E c \in Contention, armor \in BOOLEAN : SinkAssign("a", c, armor)

SinkSpec == StmtInit /\ [][SinkNext]_vars

\* A value of any supported type is bound, stored and read back with the
\* same type.
CodecInit ==
  /\ ConcIdle
  /\ holder = [r \in Res |-> NoConn]
  /\ objs = [o \in Objs |-> NoObj]
  /\ hs = <<>>
  /\ lastOp = NoOp
  /\ ex = ExIdle
  /\ tr \in {[TrOff EXCEPT !.pc = "value", !.value = x] : x \in CValues}

CodecNext == CodecBind \/ CodecStore \/ CodecRead

CodecSpec == CodecInit /\ [][CodecNext]_vars

-----------------------------------------------------------------------------
(***************************************************************************)
(* Properties of the blocking wrappers.                                    *)
(***************************************************************************)

\* C1: sqlite3_blocking_step and sqlite3_blocking_prepare_v2 return
\* SQLITE_LOCKED only when the unlock-notify registration of that call
\* reported would-deadlock; otherwise every locked result was waited on and
\* the value returned is a non-locked result of the wrapped engine call.
C1_LockedOnlyOnDeadlock ==
  lastRet.kind \in {"step", "prepare"} =>
    /\ lastRet.rc = SQLITE_LOCKED => lastRet.dead
    /\ ~lastRet.dead =>
         /\ lastRet.rc \in EngineResults(lastRet.kind)
         /\ lastRet.owed = 0

\* A call that met the lock, slept in the unlock wait and then returned a
\* non-locked result.
C1_Witness ==
  /\ lastRet.kind = "prepare"
  /\ lastRet.slept
  /\ lastRet.rc = SQLITE_OK

\* C2: a blocking step that met a held lock does not go on (to the reset
\* and the retry) or return a result unless the callback of its own
\* notification object has fired or a deadlock was reported; a sleeping
\* thread whose flag is not set stays in the wait.
C2_ReturnsOnlyAfterCallback ==
  /\ \A t \in Conns :
       kind[t] = "step" =>
         /\ pc[t] = "reset" => fired[t] /\ owed[t] = 0
         /\ pc[t] = "call" => owed[t] = 0
  /\ (lastRet.kind = "step" /\ ~lastRet.dead) => lastRet.owed = 0

\* A blocking step returned a row or done after sleeping in the wait.
C2_Witness ==
  /\ lastRet.kind = "step"
  /\ lastRet.slept
  /\ ~lastRet.dead
  /\ lastRet.rc \in {SQLITE_ROW, SQLITE_DONE}

\* C3: once the registration reported would-deadlock the thread is out of
\* the call (it neither waits on the condition variable nor calls the
\* engine operation again), and what the wrapper returned is SQLITE_LOCKED.
C3_DeadlockStopsRetry ==
  /\ \A t \in Conns : dead[t] => pc[t] = "idle"
  /\ lastRet.dead => lastRet.rc = SQLITE_LOCKED

\* Each of the three wrappers can return on a deadlock report.
C3_Witness ==
  /\ lastRet.dead
  /\ lastRet.kind = "exec"
  /\ lastRet.rc = SQLITE_LOCKED
  /\ \E t \in Conns : dead[t] /\ pc[t] = "idle"

\* C4: under fair scheduling, with every lock holder outside a call ending
\* its transaction, every blocking call eventually returns.
C4_EveryCallReturns == \A t \in Conns : InCall(t) ~> ~InCall(t)

\* One thread sleeps in its wait while another one's registration was
\* refused as a deadlock.
C4_Witness ==
  /\ lastRet.dead
  /\ \E t, u \in Conns :
       /\ t # u
       /\ dead[t]
       /\ pc[u] = "wait"
       /\ unlockConn[u] = t


-----------------------------------------------------------------------------
(***************************************************************************)
(* Properties of class Statement.                                          *)
(***************************************************************************)
Owners(h) == {o \in Objs : objs[o].alive /\ objs[o].stmt = h}

\* C5: whatever the sequence of constructions, move constructions, move
\* assignments (self-assignment included) and destructions, a handle that
\* is not finalized is owned by exactly one Statement, no handle is
\* finalized twice, no Statement holds a finalized handle, and with every
\* Statement destroyed every compiled handle has been finalized once.
C5_HandlesFinalizedOnce ==
  /\ \A h \in 1..Len(hs) :
       /\ hs[h].fin <= 1
       /\ Cardinality(Owners(h)) <= 1
       /\ hs[h].fin = 0 <=> Owners(h) # {}
  /\ (\A o \in Objs : ~objs[o].alive) =>
       \A h \in 1..Len(hs) : hs[h].fin = 1

\* A Statement has just been move-assigned to itself: its handle is
\* finalized (once) and it owns none.
C5_Witness ==
  /\ lastOp.op = "moveassign"
  /\ lastOp.dst = lastOp.src
  /\ lastOp.dstStmt # NoStmt
  /\ hs[lastOp.dstStmt].fin = 1
  /\ objs[lastOp.dst].stmt = NoStmt
  /\ \E o \in Objs : o # lastOp.dst /\ objs[o].alive /\ objs[o].stmt # NoStmt

\* C6: right after a move construction or a move assignment from another
\* Statement, the target holds the handle and the status the source had,
\* and the source holds no handle; and the destruction of a Statement that
\* holds no handle finalizes nothing.
C6_MoveTransfers ==
  /\ (lastOp.op \in {"movector", "moveassign"} /\ lastOp.dst # lastOp.src) =>
       /\ objs[lastOp.dst].stmt = lastOp.srcStmt
       /\ objs[lastOp.dst].rc = lastOp.srcRc
       /\ objs[lastOp.src].alive
       /\ objs[lastOp.src].stmt = NoStmt
  /\ (lastOp.op = "destroy" /\ lastOp.srcStmt = NoStmt) =>
       lastOp.finalized = 0

\* A Statement holding a handle and a failure status was move-assigned to
\* one that held another handle.
C6_Witness ==
  /\ lastOp.op = "moveassign"
  /\ lastOp.dst # lastOp.src
  /\ lastOp.srcStmt # NoStmt
  /\ lastOp.dstStmt # NoStmt
  /\ lastOp.srcRc = SQLITE_ERROR
  /\ objs[lastOp.dst].rc = SQLITE_ERROR

\* C7: right after a strict construction, the status is not Ok if the
\* first statement compiled and any further non-trivial statement follows
\* it, at whatever distance; the status is Ok only if nothing but trivial
\* text follows the first statement.
C7_StrictRejectsTrailing ==
  (lastOp.op = "construct" /\ lastOp.strict) =>
    /\ (lastOp.firstOk /\ lastOp.restWork) =>
         objs[lastOp.dst].rc # SQLITE_OK
    /\ objs[lastOp.dst].rc = SQLITE_OK => ~lastOp.restWork

\* A strict construction from text whose second statement is separated
\* from the first by trivial text, and compiles.
C7_Witness ==
  /\ lastOp.op = "construct"
  /\ lastOp.strict
  /\ lastOp.firstOk
  /\ lastOp.restGap >= 2
  /\ lastOp.rem # NoStmt
  /\ objs[lastOp.dst].rc = SQLITE_ERROR

C9_NonStrictFirstOnly ==
  (lastOp.op = "construct" /\ ~lastOp.strict) =>
    /\ lastOp.nprep = 1
    /\ lastOp.rem = NoStmt
    /\ \A h \in 1..Len(hs) : ~hs[h].rem \/ hs[h].fin = 1
    /\ objs[lastOp.dst].rc = lastOp.firstRc
    /\ lastOp.firstOk => objs[lastOp.dst].rc = SQLITE_OK

\* A non-strict construction from text with a further statement behind the
\* first.
C9_Witness ==
  /\ lastOp.op = "construct"
  /\ ~lastOp.strict
  /\ lastOp.restWork
  /\ lastOp.firstOk
  /\ objs[lastOp.dst].rc = SQLITE_OK
  /\ objs[lastOp.dst].stmt = Len(hs)

-----------------------------------------------------------------------------
(***************************************************************************)
(* Properties of ExecRC.                                                   *)
(***************************************************************************)

\* The statements of the text among its first n tokens, in order.
RECURSIVE StatementsUpTo(_, _)
StatementsUpTo(sql, n) ==
  IF n = 0 THEN <<>>
  ELSE IF sql[n] \in Trivial THEN StatementsUpTo(sql, n - 1)
  ELSE Append(StatementsUpTo(sql, n - 1), n)

\* The first statement of the text that fails by itself, or 0.
FirstFailing(sql) ==
  LET F == {i \in 1..Len(sql) : sql[i] \in {"bad", "fail"}}
  IN IF F = {} THEN 0 ELSE CHOOSE i \in F : \A j \in F : i <= j

\* C10: when ExecRC has returned: if some statement's compile or step ended
\* with a status other than Ok and Done, the result is the status of the
\* first such statement, the statements before it were each stepped to
\* Done, in order, and no statement after it was compiled or stepped;
\* without contention that statement is the first one of the script that
\* fails by itself.
C10_ExecStopsAtFirstFailure ==
  ex.pc = "done" =>
    /\ ex.failAt # 0 =>
         /\ ex.ret = ex.failRc
         /\ ex.done = StatementsUpTo(ex.script, ex.failAt - 1)
         /\ \A i \in ex.tried \cup ex.stepped : i <= ex.failAt
    /\ ex.failAt = 0 => ex.done = StatementsUpTo(ex.script, Len(ex.script))
    /\ ~ex.contended => ex.failAt = FirstFailing(ex.script)

\* ExecRC returned the failure of a statement that ran a query before it
\* and has a statement behind it.
C10_Witness ==
  /\ ex.pc = "done"
  /\ ex.failAt = 2
  /\ ex.ret = SQLITE_ERROR
  /\ ex.done = <<1>>
  /\ Len(ex.script) = 3
  /\ ex.script[1] = "q2"
  /\ ex.script[3] \in Runs

\* Every handle ExecRC compiled is finalized once when it has returned; while
\* it runs no handle is finalized twice and only the statement in hand is
\* not finalized.
ExecFinalizesOnce ==
  /\ ex.pc = "done" => \A h \in 1..Len(hs) : hs[h].fin = 1
  /\ ex.pc # "idle" =>
       \A h \in 1..Len(hs) :
         /\ hs[h].fin <= 1
         /\ hs[h].fin = 0 => h = ex.stmt

\* C11 as stated: when ExecRC has returned, the result is Ok exactly if
\* every statement of the script was compiled and stepped to Done, text that
\* is trivial to its end being passed over without error; and each handle
\* ExecRC compiled has been finalized once.
C11_ExecOkIffAllDone ==
  /\ ex.pc = "done" =>
       (ex.ret = SQLITE_OK <=>
          ex.done = StatementsUpTo(ex.script, Len(ex.script)))
  /\ ExecFinalizesOnce

\* C11: when ExecRC has returned, the result is Ok only if every statement
\* of the script was compiled and stepped to Done; if they all were, the
\* result is Ok unless the compile call over the text left, which holds no
\* statement, was refused for a deadlock, and then the result is Locked;
\* and, on every path, each handle ExecRC compiled has been finalized once.
C11_ExecOkIffAllDoneUnrefused ==
  /\ ex.pc = "done" =>
       /\ ex.ret = SQLITE_OK =>
            ex.done = StatementsUpTo(ex.script, Len(ex.script))
       /\ (ex.done = StatementsUpTo(ex.script, Len(ex.script))
             /\ ex.ret # SQLITE_OK) =>
            /\ ex.ret = SQLITE_LOCKED
            /\ ex.at = 0
            /\ ex.contended
  /\ ExecFinalizesOnce

\* ExecRC returned Ok for a script of an empty statement, a statement and
\* trailing white space.
C11_Witness ==
  /\ ex.pc = "done"
  /\ ex.ret = SQLITE_OK
  /\ Len(ex.script) = 3
  /\ ex.script[1] = "semi"
  /\ ex.script[2] \in Runs
  /\ ex.script[3] = "ws"
  /\ Len(hs) = 1
  /\ hs[1].fin = 1


(***************************************************************************)
(* Properties of the calls that step a Statement.                          *)
(***************************************************************************)

\* C12: Run resets the statement and then performs one blocking step whose
\* status it records; it returns true exactly if that status is Done, so a
\* row or an error gives false.  Because of the reset the step is the first
\* of a new execution wherever the statement was: unless the call is
\* refused for a deadlock, a query with rows gives its first row and a
\* statement without rows gives Done.
C12_RunResetsAndSteps ==
  lastOp.op = "run" =>
    LET o == lastOp.dst
        h == objs[o].stmt
    IN /\ objs[o].rc = lastOp.rc
       /\ lastOp.ret <=> lastOp.rc = SQLITE_DONE
       /\ lastOp.rc \in {SQLITE_ROW, SQLITE_ERROR, SQLITE_LOCKED,
                         SQLITE_MISUSE} => ~lastOp.ret
       /\ (h # NoStmt /\ lastOp.c # "deadlock") =>
            /\ Rows(hs[h].kind) >= 1 =>
                 /\ lastOp.rc = SQLITE_ROW
                 /\ lastOp.row = 1
                 /\ hs[h].pos = 1
            /\ hs[h].kind = "dml" => lastOp.rc = SQLITE_DONE
            /\ hs[h].kind = "fail" => lastOp.rc = SQLITE_ERROR
       /\ (h # NoStmt /\ lastOp.c = "deadlock") =>
            lastOp.rc = SQLITE_LOCKED

\* Run was called on a query in the middle of its rows and gave the first
\* row again.
C12_Witness ==
  /\ lastOp.op = "run"
  /\ lastOp.from = 1
  /\ objs[lastOp.dst].stmt # NoStmt
  /\ hs[objs[lastOp.dst].stmt].kind = "q2"
  /\ lastOp.row = 1
  /\ ~lastOp.ret

AllRows(h) == [i \in 1..Rows(hs[h].kind) |-> i]

\* s is the sequence of the first elements of t.
IsPrefix(s, t) ==
  /\ Len(s) <= Len(t)
  /\ \A i \in 1..Len(s) : s[i] = t[i]

FirstRefused(h, params) ==
  LET F == {i \in 1..Len(params) :
              \/ h = NoStmt
              \/ i > NParams(hs[h].kind)
              \/ params[i] = "big"}
  IN IF F = {} THEN 0 ELSE CHOOSE i \in F : \A j \in F : i <= j

\* C17: Bind, BindCopy, BindTuple and BindTupleCopy reset the statement,
\* then bind the values from left to right, the value at position i,
\* counted from 0, to the engine's parameter i + 1.  They stop at the first
\* bind call that fails: the parameters behind it keep what they held, the
\* status is that call's failure code and the result is false.  The result
\* is true, with status Ok, only if every bind call succeeded.
C17_BindStopsAtFirstFailure ==
  lastOp.op = "bind" =>
    LET o == lastOp.dst
        h == objs[o].stmt
        p == lastOp.params
        k == FirstRefused(h, p)
        n == IF k = 0 THEN Len(p) ELSE k
    IN /\ h # NoStmt => hs[h].pos = 0
       /\ Len(lastOp.log) = n
       /\ \A i \in 1..n :
            /\ lastOp.log[i][1] = i
            /\ lastOp.log[i][2] = p[i]
            /\ lastOp.log[i][3] = SQLITE_OK <=> i # k
       /\ objs[o].rc = lastOp.log[n][3]
       /\ lastOp.ret <=> objs[o].rc = SQLITE_OK
       /\ lastOp.ret <=> k = 0
       /\ h # NoStmt =>
            \A i \in 1..NParams(hs[h].kind) :
              hs[h].binds[i] = IF i <= Len(p) /\ (k = 0 \/ i < k) THEN p[i]
                               ELSE IF i = k THEN "null"
                               ELSE lastOp.before[i]

\* A statement that had been run and held two values got two values of
\* which the first was refused: the second was never tried and the second
\* parameter kept its value.
C17_Witness ==
  /\ lastOp.op = "bind"
  /\ lastOp.from # 0
  /\ lastOp.params = <<"big", "null">>
  /\ lastOp.before = <<"v", "v">>
  /\ objs[lastOp.dst].rc = SQLITE_TOOBIG
  /\ ~lastOp.ret
  /\ Len(lastOp.log) = 1
  /\ hs[objs[lastOp.dst].stmt].binds = <<"null", "v">>

\* The calls a Sink makes for rows 1..m: clear, bind, run for each, in
\* order.
RECURSIVE SinkCalls(_)
SinkCalls(m) ==
  IF m = 0 THEN <<>>
  ELSE SinkCalls(m - 1) \o <<<<"clear", m>>, <<"bind", m>>, <<"run", m>>>>

\* C16: copying rows into a Sink clears the bindings, binds the row and
\* runs the statement, for each row in order.  When Run fails for row k an
\* exception carrying the engine's text for the status is raised: the rows
\* behind k are never bound or run and the rows before k were each run
\* once, to Done.  When no Run fails every row is run once.
C16_SinkRunsRowsInOrder ==
  /\ tr.pc \in {"copy", "copied"} =>
       /\ tr.calls = SinkCalls(tr.k - 1)
       /\ Len(tr.stored) = tr.k - 1
       /\ tr.what = "none"
  /\ tr.pc = "copied" => tr.k = Len(tr.input) + 1
  /\ tr.pc = "thrown" =>
       /\ tr.k \in 1..Len(tr.input)
       /\ tr.calls = SinkCalls(tr.k)
       /\ Len(tr.stored) = tr.k - 1
       /\ objs["a"].rc # SQLITE_DONE
       /\ tr.what = Errstr(objs["a"].rc)
       /\ tr.what # "none"
  /\ \A i \in 1..Len(tr.stored) :
       tr.bindRc[i] = SQLITE_OK =>
         \A j \in 1..Len(tr.stored[i]) :
           tr.stored[i][j] = IF j <= Len(tr.input[i]) THEN tr.input[i][j]
                                                     ELSE "null"
  /\ (tr.pc = "thrown" /\ lastOp.c = "free"
        /\ objs["a"].stmt # NoStmt
        /\ hs[objs["a"].stmt].kind = "dml") =>
       /\ tr.input[tr.k][1] = "dup"
       /\ objs["a"].rc = SQLITE_CONSTRAINT

\* The second of three rows broke a constraint when it was run: the first
\* row was stored, the exception tells of the constraint, the third row
\* was never touched.
C16_Witness ==
  /\ tr.pc = "thrown"
  /\ Len(tr.input) = 3
  /\ tr.k = 2
  /\ tr.input[1] = <<"v", "v">>
  /\ tr.input[3] = <<"w", "v">>
  /\ Len(tr.stored) = 1
  /\ tr.stored[1][1] = "v"
  /\ tr.stored[1][2] = "v"
  /\ tr.what = "constraint failed"

(***************************************************************************)
(* Properties of BindParam and ColumnReader.                               *)
(***************************************************************************)

\* C18 as stated: every value of a supported type (an integer, a double,
\* text, a blob, and an optional of each, with a value or without) that is
\* bound, stored and read back with the same static type comes back equal.
C18_RoundTrip ==
  tr.pc = "read" => ValueEq(tr.back, tr.value)

\* The value is, or holds, the double NaN.
IsNaN(x) == x.type = "double" /\ x.has /\ x.v.d = "nan"

\* C18: every value of a supported type other than a double NaN, plain or
\* in an optional, that is bound, stored and read back with the same static
\* type comes back equal; a NaN is bound as NULL and comes back as 0.0, or
\* as an optional without a value.
C18_RoundTripButNaN ==
  tr.pc = "read" =>
    /\ ~IsNaN(tr.value) => ValueEq(tr.back, tr.value)
    /\ IsNaN(tr.value) =>
         /\ tr.slot = EngineNull
         /\ tr.value.opt => ~tr.back.has
         /\ ~tr.value.opt => tr.back.v.d = "0.0"

\* An optional holding text with a zero byte in it went through the engine
\* and came back.
C18_Witness ==
  /\ tr.pc = "read"
  /\ tr.value.type = "Text"
  /\ tr.value.opt /\ tr.value.has
  /\ tr.value.v.bytes = <<"a", "nul">>
  /\ tr.cell = [t |-> "text", bytes |-> <<"a", "nul">>]
  /\ tr.back = tr.value

\* C19: text of no bytes, plain or in an optional that has a value, is
\* bound as text of length zero, not as NULL, and comes back through an
\* optional of text as a present, empty string; a blob of no bytes is bound
\* as a blob of length zero, not as NULL; of the text and blob values only
\* an optional without a value is bound as NULL, and it comes back without
\* a value.
C19_EmptyIsNotNull ==
  LET x == tr.value IN
  (tr.pc = "read" /\ x.type \in BlobTypes \cup TextTypes) =>
    /\ tr.slot = EngineNull <=> (x.opt /\ ~x.has)
    /\ tr.cell = EngineNull <=> (x.opt /\ ~x.has)
    /\ (x.has /\ x.v.bytes = <<>>) =>
         /\ x.type \in TextTypes => tr.cell = [t |-> "text", bytes |-> <<>>]
         /\ x.type \in BlobTypes => tr.cell = [t |-> "blob", bytes |-> <<>>]
         /\ tr.back.has
         /\ tr.back.v.bytes = <<>>
         /\ ColumnReader(x.type, TRUE, tr.cell).has
    /\ (x.opt /\ ~x.has) => ~tr.back.has

\* An optional holding a TextView of no bytes with a null pointer was
\* bound as text of length zero and came back present and empty.
C19_Witness ==
  /\ tr.pc = "read"
  /\ tr.value.type = "TextView"
  /\ tr.value.opt /\ tr.value.has
  /\ tr.value.v = [data |-> "null", bytes |-> <<>>]
  /\ tr.slot = [t |-> "text", bytes |-> <<>>]
  /\ tr.back.has
  /\ tr.back.v.bytes = <<>>

(***************************************************************************)
(* Order of the steps of a blocking call.                                  *)
(***************************************************************************)

\* Thread t's wait for the unlock notification returns to the wrapper with
\* SQLITE_OK: the callback has fired.
WaitResolved(t) ==
  /\ pc[t] = "check"
  /\ pc'[t] # "check"
  /\ fired[t]
  /\ rc[t] = SQLITE_OK

\* What a step allows for thread t.
RetryInOrder(t) ==
  /\ (pc[t] # "call" /\ pc'[t] = "call") =>
       \/ pc[t] = "idle"
       \/ kind[t] = "step" /\ pc[t] = "reset"
       \/ kind[t] # "step" /\ WaitResolved(t)
  /\ (pc[t] # "reset" /\ pc'[t] = "reset") =>
       kind[t] = "step" /\ WaitResolved(t)
  /\ (pc[t] = "reset" /\ pc'[t] # "reset") => pc'[t] = "call"
  /\ (pc[t] = "call" /\ pc'[t] # "call") =>
       /\ pc'[t] \in {"notify", "idle"}
       /\ pc'[t] = "notify" <=> rc'[t] = SQLITE_LOCKED
  /\ (pc[t] # "notify" /\ pc'[t] = "notify") => pc[t] = "call"
  /\ (pc[t] # "idle" /\ pc'[t] # "idle") =>
       /\ kind'[t] = kind[t]
       /\ want'[t] = want[t]

\* C20: in every blocking call the engine operation is invoked first when
\* the call begins and again only on a retry; a retry of
\* sqlite3_blocking_step comes right after a reset of the statement, and
\* that reset right after a wait that returned with the notification
\* fired; a retry of sqlite3_blocking_prepare_v2 (and of the exec wrapper)
\* comes right after such a wait, with no reset, on the same arguments; a
\* locked result is always followed by the wait, never by another
\* invocation.
C20_RetryAfterResolvedWait == [][\A t \in Conns : RetryInOrder(t)]_vars

\* A thread that slept in the wait of sqlite3_blocking_step is about to
\* step again, the statement reset, the notification fired.
C20_Witness ==
  \E t \in Conns :
    /\ kind[t] = "step"
    /\ pc[t] = "call"
    /\ rc[t] = SQLITE_OK
    /\ fired[t]
    /\ slept[t]


-----------------------------------------------------------------------------
(***************************************************************************)
(* Properties of the unlock wait.                                          *)
(***************************************************************************)

\* Thread t is inside the waiting half of wait_for_unlock_notify: its
\* registration returned SQLITE_OK and the wait has not returned.
InWait(t) == pc[t] \in {"lock", "check", "wait"}

\* The callback of t's current notification object has been delivered.
Delivered(t) == InWait(t) /\ owed[t] = 0

\* C21: no lost wakeup.  A thread whose registration succeeded sleeps on
\* the condition variable only while its callback has not been delivered,
\* a delivered callback has set the fired flag, and once the callback is
\* delivered (inside the registration call, before the waiter took the
\* mutex, or while it sleeps) the wait returns SQLITE_OK and the wrapper
\* goes on to its retry.
C21_NoLostWakeup ==
  /\ [](\A t \in Conns :
          /\ pc[t] = "wait" => ~fired[t] /\ owed[t] > 0
          /\ Delivered(t) => fired[t] /\ rc[t] = SQLITE_OK)
  /\ \A t \in Conns :
       Delivered(t) ~> (pc[t] \in {"reset", "call"} /\ rc[t] = SQLITE_OK)

\* A thread that slept in the wait was called back by another thread and
\* is about to retry its step.
C21_Witness ==
  \E t \in Conns :
    /\ pc[t] = "reset"
    /\ slept[t]
    /\ fired[t]
    /\ owed[t] = 0
    /\ rc[t] = SQLITE_OK

\* The steps thread u takes inside a blocking call other than waking up.
CallStep(u) ==
  \/ EngineCall(u)
  \/ Register(u)
  \/ LockMutex(u)
  \/ CheckFired(u)
  \/ ResetBeforeRetry(u)

\* Thread u's call is on a table no other connection has locked.
Independent(u) == pc[u] = "call" /\ EngineBlocker(u, want[u]) = NoConn

\* C22: the only lock a blocking wrapper takes is the mutex of its own
\* notification object, held just around the test of the fired flag and
\* not while the thread sleeps in the wait.  While a thread sleeps, any
\* other thread inside a call that is not itself asleep has a step to
\* take, and its engine call on a table nobody else has locked returns
\* its result without waiting.
C22_WaiterHoldsNoLock ==
  /\ [](\A t \in Conns :
          /\ mutex[t] \in {NoConn, t}
          /\ mutex[t] = t => pc[t] = "check"
          /\ pc[t] = "wait" =>
               /\ mutex[t] = NoConn
               /\ \A u \in Conns \ {t} :
                    (InCall(u) /\ pc[u] # "wait") => ENABLED CallStep(u))
  /\ [][\A t \in Conns : \A u \in Conns \ {t} :
          (pc[t] = "wait" /\ Independent(u) /\ pc'[u] # pc[u]) =>
            /\ pc'[u] = "idle"
            /\ pc'[t] = "wait"
            /\ lastRet'.by = u
            /\ lastRet'.asleep = {x \in Conns \ {u} : pc[x] = "wait"}
            /\ lastRet'.rc \in EngineResults(kind[u])]_vars

\* A step returned a row while the other thread was asleep in its wait,
\* and that thread is still asleep.
C22_Witness ==
  \E t \in Conns :
    /\ pc[t] = "wait"
    /\ mutex[t] = NoConn
    /\ lastRet.by \notin {NoConn, t}
    /\ t \in lastRet.asleep
    /\ lastRet.kind = "step"
    /\ lastRet.rc = SQLITE_ROW

\* The engine holds the address of a notification object of thread t: the
\* wait is registered, or its callback is due.
Registered(t) == un.obj[t].reg # 0

\* C23: every call of wait_for_unlock_notify makes a notification object
\* of its own, alive exactly while the thread is in the waiting half of
\* that call, and the engine holds no address but that of the live object
\* of a thread.  The callback touches only an object that is registered
\* and alive, at most once, with the mutex free for it to take, and turns
\* the fired flag from false to true; nothing else changes the flag of an
\* object, and no object is touched after its wait has returned, whether
\* the wait was resolved or refused as a deadlock.
C23_NotificationLifetime ==
  /\ [](/\ \A t \in Conns :
            /\ un.obj[t].live <=> InWait(t)
            /\ Registered(t) =>
                 /\ un.obj[t].reg = un.obj[t].id
                 /\ un.obj[t].live
                 /\ ~fired[t]
            /\ (unlockConn[t] # NoConn \/ \E x \in Conns : t \in cbq[x])
                 <=> Registered(t)
            /\ dead[t] => ~un.obj[t].live /\ ~Registered(t)
         /\ un.cb.p # NoConn =>
              /\ un.cb.live
              /\ un.cb.id \in 1..un.obj[un.cb.p].id
              /\ ~un.cb.was
              /\ un.cb.now)
  /\ [][\A t \in Conns :
          /\ (pc[t] = "notify" /\ pc'[t] # "notify") <=>
               un'.obj[t].id = un.obj[t].id + 1
          /\ un'.obj[t].id \in {un.obj[t].id, un.obj[t].id + 1}
          /\ (un'.obj[t].id = un.obj[t].id /\ fired'[t] # fired[t]) =>
               /\ fired'[t]
               /\ mutex[t] = NoConn
               /\ un.obj[t].live /\ un'.obj[t].live
               /\ Registered(t) /\ ~Registered(t)'
               /\ un'.cb.p = t
               /\ un'.cb.id = un.obj[t].id]_vars

\* A thread waited twice in one call; the callback for its second
\* notification object came from the other thread, and the call has
\* returned.
C23_Witness ==
  \E t \in Conns :
    /\ un.cb.p = t
    /\ un.cb.id = 2
    /\ un.cb.live
    /\ un.obj[t].id = 2
    /\ ~un.obj[t].live
    /\ pc[t] = "idle"
    /\ lastRet.by = t
    /\ lastRet.slept


-----------------------------------------------------------------------------
(***************************************************************************)
(* Further properties of class Statement.                                  *)
(***************************************************************************)

\* A Statement has just been move-assigned to itself.
SelfMoved == lastOp.op = "moveassign" /\ lastOp.dst = lastOp.src

\* The statement of C24 as given: a self-move-assignment finalizes nothing
\* and leaves the Statement with the handle and the status it had.
C24_SelfMoveIsNoOp ==
  SelfMoved =>
    /\ lastOp.finalized = 0
    /\ objs[lastOp.dst].stmt = lastOp.dstStmt
    /\ objs[lastOp.dst].rc = lastOp.srcRc

\* C24: a self-move-assignment finalizes the Statement's own handle, once,
\* and leaves the Statement alive with no handle and with the status it
\* had; no other Statement's handle is touched.
C24_SelfMoveEmpties ==
  SelfMoved =>
    /\ objs[lastOp.dst].alive
    /\ objs[lastOp.dst].stmt = NoStmt
    /\ objs[lastOp.dst].rc = lastOp.srcRc
    /\ lastOp.srcStmt = lastOp.dstStmt
    /\ lastOp.finalized = IF lastOp.dstStmt = NoStmt THEN 0 ELSE 1
    /\ lastOp.dstStmt # NoStmt =>
         /\ hs[lastOp.dstStmt].fin = 1
         /\ Owners(lastOp.dstStmt) = {}
    /\ \A h \in 1..Len(hs) : h # lastOp.dstStmt => hs[h].fin = 0 \/ Owners(h) = {}

\* A Statement with a handle and status Ok was move-assigned to itself.
C24_Witness ==
  /\ SelfMoved
  /\ lastOp.dstStmt # NoStmt
  /\ lastOp.srcRc = SQLITE_OK
  /\ objs[lastOp.dst].rc = SQLITE_OK
  /\ objs[lastOp.dst].stmt = NoStmt
  /\ hs[lastOp.dstStmt].fin = 1

\* C25: Reset puts the execution position at the start, keeps every bound
\* value, and sets the status to Ok with a handle owned, whatever the
\* status was, and to Error with none.  ClearBinds, on a Statement that
\* owns a handle, makes every bound value NULL and changes neither the
\* status nor the execution position.
C25_ResetAndClearBinds ==
  [][LET h == objs["a"].stmt
     IN /\ lastOp'.op = "reset" =>
             /\ objs'["a"].stmt = h
             /\ objs'["a"].rc = IF h = NoStmt THEN SQLITE_ERROR ELSE SQLITE_OK
             /\ Len(hs') = Len(hs)
             /\ h # NoStmt =>
                  /\ hs'[h].pos = 0
                  /\ hs'[h].binds = hs[h].binds
        /\ (lastOp'.op = "clearbinds" /\ h # NoStmt) =>
             /\ tr'.pc = "idle"
             /\ objs' = objs
             /\ Len(hs') = Len(hs)
             /\ hs'[h].pos = hs[h].pos
             /\ \A i \in 1..Len(hs[h].binds) : hs'[h].binds[i] = "null"
             /\ Len(hs'[h].binds) = Len(hs[h].binds)]_vars

\* A statement with a value bound ran to Done and was reset: the status
\* is Ok, the position the start, the value still bound.
C25_Witness ==
  /\ lastOp.op = "reset"
  /\ lastOp.srcRc = SQLITE_DONE
  /\ lastOp.from = 1
  /\ objs["a"].stmt # NoStmt
  /\ objs["a"].rc = SQLITE_OK
  /\ hs[objs["a"].stmt].pos = 0
  /\ hs[objs["a"].stmt].binds[1] = "v"
  /\ lastOp.before = hs[objs["a"].stmt].binds

\* The position a name stands for in a statement of n parameters: an int
\* stands for itself, a string for the parameter it names, or for 0.
Resolved(name, n) ==
  IF "int" \in DOMAIN name THEN name.int
  ELSE IF \E i \in 1..n : name.str = ParamName(i)
    THEN CHOOSE i \in 1..n : name.str = ParamName(i)
    ELSE 0

\* C26: right after Set or SetCopy the name has been resolved to its
\* position (an int taken as it is, an unknown name as 0), the handle is
\* at the start, every parameter but the one addressed has the value it
\* had, the status is that of the one bind and the call returned true iff
\* it is Ok: the value is bound when it is, and the call fails for an
\* unknown name, a position the statement does not have, a value the
\* engine refuses, and a Statement without a handle.
C26_SetBindsOne ==
  lastOp.op = "set" =>
    LET h == objs["a"].stmt
        n == Len(lastOp.before)
        i == lastOp.index
    IN /\ i = Resolved(lastOp.name, n)
       /\ objs["a"].rc = lastOp.rc
       /\ lastOp.ret <=> lastOp.rc = SQLITE_OK
       /\ h = NoStmt => lastOp.rc = SQLITE_MISUSE
       /\ h # NoStmt =>
            /\ hs[h].pos = 0
            /\ Len(hs[h].binds) = n
            /\ \A j \in 1..n : j # i => hs[h].binds[j] = lastOp.before[j]
            /\ i \notin 1..n => lastOp.rc = SQLITE_RANGE
            /\ i \in 1..n =>
                 /\ lastOp.ret <=> lastOp.params[1] # "big"
                 /\ lastOp.ret => hs[h].binds[i] = lastOp.params[1]
                 /\ ~lastOp.ret => lastOp.rc = SQLITE_TOOBIG

\* A statement that had run to Done with its first parameter bound was
\* given a value for its second parameter, by name.
C26_Witness ==
  /\ lastOp.op = "set"
  /\ lastOp.name = [str |-> ParamName(2)]
  /\ lastOp.index = 2
  /\ lastOp.from = 1
  /\ lastOp.ret
  /\ lastOp.before[1] = "v"
  /\ lastOp.before[2] = "null"
  /\ objs["a"].stmt # NoStmt
  /\ hs[objs["a"].stmt].binds[1] = "v"
  /\ hs[objs["a"].stmt].binds[2] = "w"

\* A Statement has just been constructed from a text.
Constructed == lastOp.op = "construct"

\* The statement of C27 as given: a construction that leaves the status Ok
\* leaves the Statement with a handle.
C27_OkOwnsHandle ==
  (Constructed /\ objs[lastOp.dst].rc = SQLITE_OK) =>
    objs[lastOp.dst].stmt # NoStmt

\* C27: right after a construction the Statement owns a handle iff the
\* text holds a first statement that compiled, and then it is the only
\* owner of a handle that is not finalized.  The status Ok goes with a
\* handle unless the text holds no statement at all: then the status is
\* Ok, in both modes, and the Statement owns no handle.  In strict mode
\* the status is Ok only if no statement follows the first.
C27_OkOwnsHandleUnlessNoStatement ==
  Constructed =>
    LET o == lastOp.dst
    IN /\ objs[o].stmt # NoStmt <=> lastOp.firstOk
       /\ objs[o].stmt # NoStmt =>
            /\ hs[objs[o].stmt].fin = 0
            /\ Owners(objs[o].stmt) = {o}
       /\ (objs[o].rc = SQLITE_OK /\ objs[o].stmt = NoStmt) =>
            /\ lastOp.firstRc = SQLITE_OK
            /\ ~lastOp.restWork
            /\ lastOp.rem = NoStmt
       /\ (objs[o].rc = SQLITE_OK /\ lastOp.strict) => ~lastOp.restWork

\* A strict construction over text that holds no statement: status Ok, no
\* handle.
C27_Witness ==
  /\ Constructed
  /\ lastOp.strict
  /\ lastOp.nprep = 2
  /\ objs[lastOp.dst].rc = SQLITE_OK
  /\ objs[lastOp.dst].stmt = NoStmt

\* The Sink ran the statement for input row i.
SinkRan(i) == \E j \in 1..Len(tr.calls) : tr.calls[j] = <<"run", i>>

\* C28: the Sink does not run the statement for an input row whose bind
\* was refused: a row whose bind reported a failure is never run, and a
\* row that was run and stored was stored with the values of the input.
C28_SinkStopsOnFailedBind ==
  \A i \in 1..Len(tr.bindRc) :
    /\ tr.bindRc[i] # SQLITE_OK => ~SinkRan(i)
    /\ (SinkRan(i) /\ i <= Len(tr.stored)) =>
         \A j \in 1..Len(tr.input[i]) :
           j <= Len(tr.stored[i]) => tr.stored[i][j] = tr.input[i][j]

\* A row whose second value the engine refused was copied into the Sink:
\* no exception, and the statement ran with NULL in the value's place.
C28_Witness ==
  /\ tr.pc = "copied"
  /\ tr.input = << <<"v", "big">> >>
  /\ tr.bindRc = <<SQLITE_TOOBIG>>
  /\ SinkRan(1)
  /\ Len(tr.stored) = 1
  /\ tr.stored[1][1] = "v"
  /\ tr.stored[1][2] = "null"
  /\ objs["a"].rc = SQLITE_DONE

\* A traversal of Rows() has just run to its end with status Done.
TraversalDone ==
  /\ lastOp.op = "test"
  /\ tr.pc = "idle"
  /\ objs["a"].stmt # NoStmt
  /\ objs["a"].rc = SQLITE_DONE

\* The statement of C29 as given: a traversal that ran to Done has yielded
\* every row of the query once, in order, whether or not one of its steps
\* met the lock in the middle of the rows and was retried.
C29_EachRowOnceDespiteLock ==
  TraversalDone => tr.yielded = AllRows(objs["a"].stmt)

\* The last n elements of sequence s.
Last(s, n) == SubSeq(s, Len(s) - n + 1, Len(s))

\* C29: a step that meets the lock and is retried after a resolved wait
\* starts the query over: it yields the first row, also after k >= 1 rows
\* were produced, and those rows are then produced again.  The rows a
\* traversal yields are runs of rows each starting with the first row and
\* going up one by one; a traversal that ran to Done ends with a run of
\* all rows of the query, and has yielded every row exactly once iff no
\* step of it met the lock in the middle of the rows.
C29_LockedStepStartsOver ==
  LET h == objs["a"].stmt IN
  /\ (lastOp.op \in {"next", "getrow"} /\ lastOp.c = "resolved"
        /\ h # NoStmt /\ hs[h].kind \in {"q1", "q2"}) =>
       /\ objs["a"].rc = SQLITE_ROW
       /\ hs[h].pos = 1
       /\ lastOp.op = "getrow" => lastOp.row = 1
  /\ \A i \in 1..Len(tr.yielded) :
       \/ tr.yielded[i] = 1
       \/ i > 1 /\ tr.yielded[i] = tr.yielded[i - 1] + 1
       \/ h = NoStmt
  /\ TraversalDone =>
       /\ Len(tr.yielded) >= Rows(hs[h].kind)
       /\ Last(tr.yielded, Rows(hs[h].kind)) = AllRows(h)
       /\ tr.clean => tr.yielded = AllRows(h)
       /\ (~tr.clean /\ hs[h].kind \in {"q1", "q2"}) =>
            Len(tr.yielded) > Rows(hs[h].kind)

\* A traversal of a two-row query met the lock behind the first row: the
\* first row was yielded twice.
C29_Witness ==
  /\ TraversalDone
  /\ ~tr.clean
  /\ tr.nth = 1
  /\ tr.yielded = <<1, 1, 2>>

\* A call of ExecRC is under way.
ExecRunning == ex.pc \in {"loop", "step", "finalize"}

====
